---- MODULE Spec2Model ----
(***************************************************************************)
(* create-baml-app: the interactive scaffolding script (latest revision,   *)
(* src/unnamed/part_002).  One run of main() is modelled as a sequential   *)
(* state machine: argument parsing, project-name prompt, language and      *)
(* package-manager prompts, availability probe, target-directory checks,   *)
(* chdir, and the per-package-manager command sequence run by runCommand.  *)
(*                                                                         *)
(* Strings that the code inspects character by character (project names,   *)
(* flags, file names) are sequences of one-character strings; a path is a  *)
(* sequence of such segments, the root being the empty path.  Executable   *)
(* names and command arguments are only compared whole and stay strings.   *)
(***************************************************************************)
EXTENDS Integers, Sequences, FiniteSets, TLC

VARIABLES
  revision,                  \* which revision of the script is running
  args,                      \* process.argv.slice(2)
  initialEntries,            \* the filesystem when the run started (never changes)
  entries,                   \* the filesystem: the set of existing paths
  installed,                 \* per executable: "yes", "no", or "unknown" (not yet used)
  pc,                        \* position of main()
  projectName,
  useCurrentDir,
  targetDir,
  language,
  packageManager,
  isPackageManagerAvailable,
  procCwd,                   \* process.cwd()
  step,                      \* next slot of the command sequence
  events,                    \* everything the run did, in order
  exitCode,                  \* {} while running, {n} after the process ended with n
  children,                  \* the executables of the child processes now alive
  lastInput,                 \* the last value handed to the name prompt's validate
  reprompts                  \* how many times the name prompt rejected a value

vars == <<revision, args, initialEntries, entries, installed, pc, projectName, useCurrentDir, targetDir,
          language, packageManager, isPackageManagerAvailable, procCwd, step,
          events, exitCode, children, lastInput, reprompts>>

(***************************************************************************)
(* Bounds of the model.                                                    *)
(***************************************************************************)
MaxArgs == 2
MaxReprompts == 1
MaxNameLen == 2

(***************************************************************************)
(* String literals of the source, spelled as character sequences.          *)
(***************************************************************************)
\* The revisions of the script: the latest one and the two before it that wrap
\* scaffold commands in try/catch.
LatestRevision == "part_002"
EarlierRevisions == {"index.js", "part_001"}

Undefined == <<"undefined">>
NoPath == << <<"undefined">> >>
EmptyString == <<>>
Dot == <<".">>
DotDot == <<".", ".">>
FlagHelpShort == <<"-", "h">>
FlagHelpLong == <<"-", "-", "h", "e", "l", "p">>
FlagUseCurrentDir ==
  <<"-", "-", "u", "s", "e", "-", "c", "u", "r", "r", "e", "n", "t", "-", "d", "i", "r">>
FlagDot == <<"-", ".">>
DefaultProjectName == <<"m", "y", "-", "a", "p", "p">>

NoFile == <<>>
RequirementsTxt ==
  <<"r", "e", "q", "u", "i", "r", "e", "m", "e", "n", "t", "s", ".", "t", "x", "t">>
PyprojectToml == <<"p", "y", "p", "r", "o", "j", "e", "c", "t", ".", "t", "o", "m", "l">>
TsconfigJson == <<"t", "s", "c", "o", "n", "f", "i", "g", ".", "j", "s", "o", "n">>
DenoJson == <<"d", "e", "n", "o", ".", "j", "s", "o", "n">>
PackageJson == <<"p", "a", "c", "k", "a", "g", "e", ".", "j", "s", "o", "n">>
Gemfile == <<"G", "e", "m", "f", "i", "l", "e">>

(***************************************************************************)
(* The character class of the name prompt's regular expression,            *)
(* /^[a-zA-Z0-9-_]+$/.                                                     *)
(***************************************************************************)
LowerCase == {"a", "b", "c", "d", "e", "f", "g", "h", "i", "j", "k", "l", "m",
              "n", "o", "p", "q", "r", "s", "t", "u", "v", "w", "x", "y", "z"}
UpperCase == {"A", "B", "C", "D", "E", "F", "G", "H", "I", "J", "K", "L", "M",
              "N", "O", "P", "Q", "R", "S", "T", "U", "V", "W", "X", "Y", "Z"}
Digits == {"0", "1", "2", "3", "4", "5", "6", "7", "8", "9"}
NameClass == LowerCase \cup UpperCase \cup Digits \cup {"-", "_"}

RECURSIVE MatchClassStar(_)
MatchClassStar(s) ==
  IF s = <<>> THEN TRUE
  ELSE IF Head(s) \in NameClass THEN MatchClassStar(Tail(s))
  ELSE FALSE

\* Faulty variant: `*` in place of `+`.
NameRegexTestStar(s) == MatchClassStar(s)
\* One or more characters of the class, anchored at both ends.
NameRegexTest(s) ==
  IF s = <<>> THEN FALSE
  ELSE IF Head(s) \in NameClass THEN MatchClassStar(Tail(s))
  ELSE FALSE

\* Faulty variant: a validator no name passes.
ValidateRejectsAll(input) == FALSE
\* validate: TRUE stands for `true`, FALSE for the returned error message.
Validate(input) ==
  IF input = Dot THEN TRUE
  ELSE IF ~NameRegexTest(input) THEN FALSE
  ELSE TRUE

(***************************************************************************)
(* Argument handling.                                                      *)
(***************************************************************************)
Includes(a, x) == \E i \in 1..Len(a) : a[i] = x

\* Faulty variant: only the first argument is looked at.
HelpRequestedFirstOnly(a) ==
  Len(a) >= 1 /\ (a[1] = FlagHelpShort \/ a[1] = FlagHelpLong)
HelpRequested(a) == Includes(a, FlagHelpShort) \/ Includes(a, FlagHelpLong)

\* Faulty variant: the name is the first argument that is not a directory flag.
FirstArgSkipsFlags(a) ==
  LET named == {i \in 1..Len(a) : a[i] \notin {FlagUseCurrentDir, FlagDot}}
  IN IF named = {} THEN Undefined
     ELSE a[CHOOSE i \in named : \A k \in named : i <= k]
\* args[0]: undefined when there is no argument.
FirstArg(a) == IF Len(a) >= 1 THEN a[1] ELSE Undefined

\* !projectName: undefined and the empty string are falsy.
Falsy(name) == name = Undefined \/ name = EmptyString

(***************************************************************************)
(* path.resolve(projectName) against the working directory.                *)
(***************************************************************************)
RECURSIVE SplitAcc(_, _, _)
SplitAcc(s, cur, acc) ==
  IF s = <<>> THEN Append(acc, cur)
  ELSE IF Head(s) = "/" THEN SplitAcc(Tail(s), <<>>, Append(acc, cur))
  ELSE SplitAcc(Tail(s), Append(cur, Head(s)), acc)

SplitSlash(s) == SplitAcc(s, <<>>, <<>>)

RECURSIVE Normalize(_, _)
Normalize(base, segs) ==
  IF segs = <<>> THEN base
  ELSE LET seg == Head(segs) IN
       IF seg = <<>> \/ seg = Dot THEN Normalize(base, Tail(segs))
       ELSE IF seg = DotDot
         THEN Normalize(IF base = <<>> THEN base ELSE SubSeq(base, 1, Len(base) - 1),
                        Tail(segs))
       ELSE Normalize(Append(base, seg), Tail(segs))

IsAbsolute(s) == Len(s) >= 1 /\ s[1] = "/"

Resolve(cwd, name) ==
  Normalize(IF IsAbsolute(name) THEN <<>> ELSE cwd, SplitSlash(name))

(***************************************************************************)
(* Target directory (mode and path).                                       *)
(***************************************************************************)
\* Faulty variant: the flags are ignored.
UseCurrentDirNameOnly(name, a) == name = Dot
UseCurrentDir(name, a) ==
  name = Dot \/ Includes(a, FlagUseCurrentDir) \/ Includes(a, FlagDot)

TargetDir(name, a, cwd) ==
  IF UseCurrentDir(name, a) THEN cwd ELSE Resolve(cwd, name)

(***************************************************************************)
(* Filesystem.                                                             *)
(***************************************************************************)
\* Faulty variant: the existence test is lost.
ExistsSyncNever(fs, p) == FALSE
ExistsSync(fs, p) == p \in fs

\* Faulty variant: the listing is always empty.
ReaddirSyncNothing(fs, p) == {}
ReaddirSync(fs, p) ==
  {q \in fs : Len(q) = Len(p) + 1 /\ SubSeq(q, 1, Len(p)) = p}

\* mkdirSync(p, { recursive: true }): p and every missing ancestor.
MkdirRecursive(fs, p) == fs \cup {SubSeq(p, 1, n) : n \in 0..Len(p)}

(***************************************************************************)
(* Ecosystem selection.                                                    *)
(***************************************************************************)
Languages == {"Python", "TypeScript", "Ruby"}

\* Variant of the earlier revisions (src/index.js): no bun.
PackageManagerChoicesNoBun(lang) ==
  CASE lang = "Python" -> {"pip", "poetry", "uv"}
    [] lang = "TypeScript" -> {"npm", "pnpm", "yarn", "deno"}
    [] lang = "Ruby" -> {"bundle"}
PackageManagerChoices(lang) ==
  CASE lang = "Python" -> {"pip", "poetry", "uv"}
    [] lang = "TypeScript" -> {"npm", "pnpm", "yarn", "deno", "bun"}
    [] lang = "Ruby" -> {"bundle"}

PackageManagers == UNION {PackageManagerChoices(l) : l \in Languages}

\* Faulty variant: no manager falls back on node.
NodeFallbackNone == {}
\* The managers whose missing executable is excused by a working `node`.
NodeFallback == {"npm", "pnpm", "yarn"}

\* Variant of a switch written before bun was added: no case for bun.
InstallLinkNoBun(pm) ==
  CASE pm = "pip" -> "https://pip.pypa.io/en/stable/installation/"
    [] pm = "poetry" -> "https://python-poetry.org/docs/#installation"
    [] pm = "uv" -> "https://github.com/astral-sh/uv#installation"
    [] pm = "npm" -> "https://docs.npmjs.com/downloading-and-installing-node-js-and-npm"
    [] pm = "pnpm" -> "https://pnpm.io/installation"
    [] pm = "yarn" -> "https://classic.yarnpkg.com/en/docs/install"
    [] pm = "deno" -> "https://deno.land/#installation"
    [] pm = "bundle" -> "https://bundler.io/#getting-started"
    [] OTHER -> ""
InstallLink(pm) ==
  CASE pm = "pip" -> "https://pip.pypa.io/en/stable/installation/"
    [] pm = "poetry" -> "https://python-poetry.org/docs/#installation"
    [] pm = "uv" -> "https://github.com/astral-sh/uv#installation"
    [] pm = "npm" -> "https://docs.npmjs.com/downloading-and-installing-node-js-and-npm"
    [] pm = "pnpm" -> "https://pnpm.io/installation"
    [] pm = "yarn" -> "https://classic.yarnpkg.com/en/docs/install"
    [] pm = "deno" -> "https://deno.land/#installation"
    [] pm = "bundle" -> "https://bundler.io/#getting-started"
    [] pm = "bun" -> "https://bun.sh/docs/installation"
    [] OTHER -> ""

Executables == PackageManagers \cup {"node", "npx", "touch", "baml-cli"}

(***************************************************************************)
(* The command sequence of each package manager, in source order.  A slot  *)
(* is skipped when its `unless` file exists in the working directory.      *)
(* `creates` are the files a successful command leaves behind according   *)
(* to its description; `mayCreate` are files it may or may not leave       *)
(* (only files the script later tests for are tracked).                    *)
(***************************************************************************)
Cmd(unless, cmd, a, role, creates, mayCreate) ==
  [kind |-> "cmd", unless |-> unless, cmd |-> cmd, args |-> a, role |-> role,
   creates |-> creates, mayCreate |-> mayCreate, cwdOption |-> FALSE]

\* A command run with the option { cwd: targetDir }.
CmdInTarget(unless, cmd, a, role, creates, mayCreate) ==
  [kind |-> "cmd", unless |-> unless, cmd |-> cmd, args |-> a, role |-> role,
   creates |-> creates, mayCreate |-> mayCreate, cwdOption |-> TRUE]

WriteFile(unless, file) ==
  [kind |-> "write", unless |-> unless, cmd |-> "writeFileSync", args |-> <<>>,
   role |-> "tsconfig", creates |-> {file}, mayCreate |-> {}, cwdOption |-> FALSE]

\* Faulty variant: the advisory text is lost.
NoteOmitted(what) ==
  [kind |-> "note", unless |-> NoFile, cmd |-> "console.log", args |-> <<>>,
   role |-> "", creates |-> {}, mayCreate |-> {}, cwdOption |-> FALSE]
Note(what) ==
  [kind |-> "note", unless |-> NoFile, cmd |-> "console.log", args |-> <<>>,
   role |-> what, creates |-> {}, mayCreate |-> {}, cwdOption |-> FALSE]

DenoCli == "npm:@boundaryml/baml/baml-cli"

\* Variant of the revision before (src/unnamed/part_001): pnpm and yarn generate
\* through npx.
GenerateStepViaNpx(pm) ==
  CASE pm = "pip" ->
         Cmd(NoFile, "baml-cli", <<"generate">>, "generate", {}, {})
    [] pm = "poetry" ->
         Cmd(NoFile, "poetry", <<"run", "baml-cli", "generate">>, "generate", {}, {})
    [] pm = "uv" ->
         Cmd(NoFile, "uv", <<"run", "baml-cli", "generate">>, "generate", {}, {})
    [] pm = "npm" ->
         Cmd(NoFile, "npx", <<"baml-cli", "generate">>, "generate", {}, {})
    [] pm = "pnpm" ->
         Cmd(NoFile, "npx", <<"baml-cli", "generate">>, "generate", {}, {})
    [] pm = "yarn" ->
         Cmd(NoFile, "npx", <<"baml-cli", "generate">>, "generate", {}, {})
    [] pm = "bun" ->
         CmdInTarget(NoFile, "bun", <<"x", "baml-cli", "generate">>, "generate", {}, {})
    [] pm = "deno" ->
         Cmd(NoFile, "deno", <<"run", "--unstable-sloppy-imports", "-A", DenoCli, "generate">>,
             "generate", {}, {})
    [] pm = "bundle" ->
         Cmd(NoFile, "bundle", <<"exec", "baml-cli", "generate">>, "generate", {}, {})
\* The generate step of each package manager.
GenerateStep(pm) ==
  CASE pm = "pip" ->
         Cmd(NoFile, "baml-cli", <<"generate">>, "generate", {}, {})
    [] pm = "poetry" ->
         Cmd(NoFile, "poetry", <<"run", "baml-cli", "generate">>, "generate", {}, {})
    [] pm = "uv" ->
         Cmd(NoFile, "uv", <<"run", "baml-cli", "generate">>, "generate", {}, {})
    [] pm = "npm" ->
         Cmd(NoFile, "npx", <<"baml-cli", "generate">>, "generate", {}, {})
    [] pm = "pnpm" ->
         Cmd(NoFile, "pnpm", <<"exec", "baml-cli", "generate">>, "generate", {}, {})
    [] pm = "yarn" ->
         Cmd(NoFile, "yarn", <<"baml-cli", "generate">>, "generate", {}, {})
    [] pm = "bun" ->
         CmdInTarget(NoFile, "bun", <<"x", "baml-cli", "generate">>, "generate", {}, {})
    [] pm = "deno" ->
         Cmd(NoFile, "deno", <<"run", "--unstable-sloppy-imports", "-A", DenoCli, "generate">>,
             "generate", {}, {})
    [] pm = "bundle" ->
         Cmd(NoFile, "bundle", <<"exec", "baml-cli", "generate">>, "generate", {}, {})

CommandSequence(pm) ==
  CASE pm = "pip" -> <<
         Cmd(RequirementsTxt, "touch", <<"requirements.txt">>, "manifest", {RequirementsTxt}, {}),
         Cmd(NoFile, "pip", <<"install", "baml-py">>, "add", {}, {}),
         Cmd(NoFile, "baml-cli", <<"init">>, "init", {}, {}),
         GenerateStep("pip") >>
    [] pm = "poetry" -> <<
         Cmd(PyprojectToml, "poetry",
             <<"init", "--name=baml-project", "--description=A BAML project",
               "--author=", "--python=^3.8", "--no-interaction">>,
             "manifest", {PyprojectToml}, {}),
         Cmd(NoFile, "poetry", <<"add", "baml-py">>, "add", {}, {}),
         Cmd(NoFile, "poetry", <<"run", "baml-cli", "init">>, "init", {}, {}),
         GenerateStep("poetry") >>
    [] pm = "uv" -> <<
         Cmd(PyprojectToml, "uv", <<"init">>, "manifest", {PyprojectToml}, {}),
         Cmd(NoFile, "uv", <<"add", "baml-py">>, "add", {}, {}),
         Cmd(NoFile, "uv", <<"run", "baml-cli", "init">>, "init", {}, {}),
         GenerateStep("uv") >>
    [] pm = "npm" -> <<
         Cmd(NoFile, "npm", <<"install", "typescript", "--save-dev">>, "typescript", {}, {}),
         Cmd(TsconfigJson, "npx", <<"tsc", "--init">>, "tsconfig", {TsconfigJson}, {}),
         Cmd(NoFile, "npm", <<"install", "@boundaryml/baml">>, "add", {}, {}),
         Cmd(NoFile, "npx", <<"baml-cli", "init">>, "init", {}, {}),
         GenerateStep("npm") >>
    [] pm = "pnpm" -> <<
         Cmd(NoFile, "pnpm", <<"add", "typescript", "-D">>, "typescript", {}, {}),
         Cmd(TsconfigJson, "pnpm", <<"exec", "tsc", "--init">>, "tsconfig", {TsconfigJson}, {}),
         Cmd(NoFile, "pnpm", <<"add", "@boundaryml/baml">>, "add", {}, {}),
         Cmd(NoFile, "pnpm", <<"exec", "baml-cli", "init">>, "init", {}, {}),
         GenerateStep("pnpm") >>
    [] pm = "yarn" -> <<
         Cmd(NoFile, "yarn", <<"add", "typescript", "--dev">>, "typescript", {}, {}),
         Cmd(TsconfigJson, "yarn", <<"tsc", "--init">>, "tsconfig", {TsconfigJson}, {}),
         Cmd(NoFile, "yarn", <<"add", "@boundaryml/baml">>, "add", {}, {}),
         Cmd(NoFile, "yarn", <<"baml-cli", "init">>, "init", {}, {}),
         GenerateStep("yarn") >>
    [] pm = "bun" -> <<
         Cmd(NoFile, "bun", <<"add", "typescript", "--dev">>, "typescript", {}, {PackageJson}),
         Cmd(TsconfigJson, "bun", <<"x", "tsc", "--init">>, "tsconfig", {TsconfigJson}, {}),
         CmdInTarget(PackageJson, "bun", <<"init", "-y">>, "manifest", {PackageJson}, {}),
         CmdInTarget(NoFile, "bun", <<"install", "@boundaryml/baml">>, "add", {}, {}),
         CmdInTarget(NoFile, "bun", <<"x", "baml-cli", "init">>, "init", {}, {}),
         GenerateStep("bun") >>
    [] pm = "deno" -> <<
         WriteFile(TsconfigJson, TsconfigJson),
         Cmd(DenoJson, "deno", <<"init">>, "manifest", {DenoJson}, {}),
         Cmd(NoFile, "deno", <<"install", "npm:@boundaryml/baml">>, "add", {}, {}),
         Cmd(NoFile, "deno", <<"run", "-A", DenoCli, "init">>, "init", {}, {}),
         GenerateStep("deno"),
         Note("deno_note") >>
    [] pm = "bundle" -> <<
         Cmd(Gemfile, "bundle", <<"init">>, "manifest", {Gemfile}, {}),
         Cmd(NoFile, "bundle", <<"add", "baml", "sorbet-runtime">>, "add", {}, {}),
         Cmd(NoFile, "bundle", <<"exec", "baml-cli", "init">>, "init", {}, {}),
         GenerateStep("bundle") >>
    [] OTHER -> << >>

\* Faulty variant: the test is inverted.
SkippedInverted(slot, fs, cwd) ==
  slot.unless # NoFile /\ ~ExistsSync(fs, Append(cwd, slot.unless))
\* if (!existsSync(file)): whether the slot is passed over.
Skipped(slot, fs, cwd) ==
  slot.unless # NoFile /\ ExistsSync(fs, Append(cwd, slot.unless))

\* Faulty variant: no presence check, every slot is run.
NextSlotNoSkip(seq, i, fs, cwd) == i
\* The first slot at or after i that is not passed over (Len + 1 when none).
RECURSIVE NextSlot(_, _, _, _)
NextSlot(seq, i, fs, cwd) ==
  IF i > Len(seq) THEN i
  ELSE IF Skipped(seq[i], fs, cwd) THEN NextSlot(seq, i + 1, fs, cwd)
  ELSE i

(***************************************************************************)
(* Events.                                                                 *)
(***************************************************************************)
ConsoleLog(what) == [type |-> "print", what |-> what]
InstallHint(pm) == [type |-> "print", what |-> "install_link", link |-> InstallLink(pm)]
PromptShown(name, choices) == [type |-> "prompt", name |-> name, choices |-> choices]
Probe(cmd, outcome) == [type |-> "probe", cmd |-> cmd, outcome |-> outcome]
Run(slot, outcome, cwd) ==
  [type |-> "run", cmd |-> slot.cmd, args |-> slot.args, role |-> slot.role,
   outcome |-> outcome, cwd |-> cwd]
Mkdir(path, ok) == [type |-> "mkdir", path |-> path, ok |-> ok]
Chdir(path, ok) == [type |-> "chdir", path |-> path, ok |-> ok]
Write(file, ok) == [type |-> "write", file |-> file, ok |-> ok]

EventsOf(t) == SelectSeq(events, LAMBDA e : e.type = t)
Printed(what) == \E i \in 1..Len(events) : events[i].type = "print" /\ events[i].what = what

(***************************************************************************)
(* Child processes: what execa can yield for an executable.                *)
(***************************************************************************)
Outcomes(cmd) ==
  CASE installed[cmd] = "yes" -> {"ok", "error"}
    [] installed[cmd] = "no" -> {"enoent"}
    [] OTHER -> {"ok", "error", "enoent"}

Learn(cmd, outcome) ==
  [installed EXCEPT ![cmd] = IF outcome = "enoent" THEN "no" ELSE "yes"]

\* Faulty variant: without the catch a missing executable rejects into main().
CheckCommandAvailableUncaught(outcome) ==
  [returns |-> outcome # "enoent", value |-> outcome = "ok"]
\* checkCommandAvailable: it always returns; true only when the version query
\* succeeds.
CheckCommandAvailable(outcome) == [returns |-> TRUE, value |-> outcome = "ok"]

\* runCommand's catch block: the diagnostic it prints, then process.exit(1).
\* Variant of the earlier revisions (src/index.js): always the error message.
RunCommandDiagnosticMessageOnly(outcome) == "command_error"
RunCommandDiagnostic(outcome) ==
  IF outcome = "enoent" THEN "command_not_found" ELSE "command_error"

\* Faulty variant: the failure handler removes the target directory.
FilesAfterFailureRemoved(fs, target) ==
  {q \in fs : Len(q) < Len(target) \/ SubSeq(q, 1, Len(target)) # target}
\* The filesystem a failed step leaves behind: the handlers print and exit, they
\* remove nothing.
FilesAfterFailure(fs, target) == fs

\* Faulty variants: the catch block returns to the caller; it exits with 0.
RunCommandCatchReturns(outcome) ==
  [diagnostic |-> RunCommandDiagnostic(outcome), exits |-> FALSE, code |-> 1]
RunCommandCatchExitsZero(outcome) ==
  [diagnostic |-> RunCommandDiagnostic(outcome), exits |-> TRUE, code |-> 0]
RunCommandCatch(outcome) ==
  [diagnostic |-> RunCommandDiagnostic(outcome), exits |-> TRUE, code |-> 1]

(***************************************************************************)
(* Inputs of a run.                                                        *)
(***************************************************************************)
Cwd0 == << <<"w">> >>

\* What may already lie in the working directory when the run starts.
PreExisting ==
  {Append(Cwd0, <<"a">>), Append(Cwd0, RequirementsTxt),
   Append(Append(Cwd0, <<"a">>), RequirementsTxt)}

Flags == {FlagHelpShort, FlagHelpLong, FlagUseCurrentDir, FlagDot}
FirstArgs ==
  Flags \cup {EmptyString, Dot, DotDot, <<"a">>, <<"a", "/", "a">>, <<"a", " ">>}
LaterArgs == Flags \cup {<<"a">>}

ArgVectors ==
  UNION {{a \in [1..k -> FirstArgs \cup LaterArgs] :
            \A i \in 1..k : IF i = 1 THEN a[i] \in FirstArgs ELSE a[i] \in LaterArgs}
         : k \in 0..MaxArgs}

\* Characters a user may type at the name prompt, and the values typed.
InputChars == {"a", "Z", "7", "-", "_", ".", "/", " "}
AllNames == UNION {[1..k -> InputChars] : k \in 0..MaxNameLen}
PromptInputs ==
  {DefaultProjectName, Dot, <<"a">>, EmptyString, DotDot, <<"a", "/", "a">>, <<"a", " ">>}

(***************************************************************************)
(* Initial state: main() has not started.                                  *)
(***************************************************************************)
Init ==
  /\ revision = LatestRevision
  /\ args \in ArgVectors
  /\ \E pre \in SUBSET PreExisting :
       /\ \A p \in pre : SubSeq(p, 1, Len(p) - 1) \in {Cwd0} \cup pre
       /\ initialEntries = {<<>>, Cwd0} \cup pre
  /\ entries = initialEntries
  /\ installed = [e \in Executables |-> "unknown"]
  /\ pc = "start"
  /\ projectName = Undefined
  /\ useCurrentDir = FALSE
  /\ targetDir = NoPath
  /\ language = ""
  /\ packageManager = ""
  /\ isPackageManagerAvailable = FALSE
  /\ procCwd = Cwd0
  /\ step = 0
  /\ events = <<>>
  /\ exitCode = {}
  /\ children = <<>>
  /\ lastInput = Undefined
  /\ reprompts = 0

(***************************************************************************)
(* main(), lines 54-90: banner, help, project name, target directory.      *)
(***************************************************************************)
ParseArguments ==
  /\ pc = "start"
  /\ IF HelpRequested(args)
       THEN /\ events' = events \o <<ConsoleLog("welcome"), ConsoleLog("usage")>>
            /\ exitCode' = {0}
            /\ pc' = "exited"
            /\ UNCHANGED <<projectName, useCurrentDir, targetDir>>
       ELSE IF Falsy(FirstArg(args))
         THEN /\ events' = events \o <<ConsoleLog("welcome"), PromptShown("projectName", {})>>
              /\ pc' = "name_prompt"
              /\ UNCHANGED <<projectName, useCurrentDir, targetDir, exitCode>>
         ELSE /\ projectName' = FirstArg(args)
              /\ useCurrentDir' = UseCurrentDir(FirstArg(args), args)
              /\ targetDir' = TargetDir(FirstArg(args), args, procCwd)
              /\ events' = events \o <<ConsoleLog("welcome"), ConsoleLog("lets_set_up"),
                                       PromptShown("language", Languages)>>
              /\ pc' = "language_prompt"
              /\ UNCHANGED exitCode
  /\ UNCHANGED <<revision, args, children, initialEntries, entries, installed, language, packageManager,
                 isPackageManagerAvailable, procCwd, step, lastInput, reprompts>>

\* The name prompt hands `input` to validate; a rejected value prints the message
\* and leaves the prompt open.
SubmitProjectName(input) ==
  /\ pc = "name_prompt"
  /\ lastInput' = input
  /\ IF Validate(input)
       THEN /\ projectName' = input
            /\ useCurrentDir' = UseCurrentDir(input, args)
            /\ targetDir' = TargetDir(input, args, procCwd)
            /\ events' = events \o <<ConsoleLog("lets_set_up"),
                                     PromptShown("language", Languages)>>
            /\ pc' = "language_prompt"
            /\ UNCHANGED reprompts
       ELSE /\ reprompts < MaxReprompts
            /\ reprompts' = reprompts + 1
            /\ events' = Append(events, ConsoleLog("invalid_name"))
            /\ UNCHANGED <<projectName, useCurrentDir, targetDir, pc>>
  /\ UNCHANGED <<revision, args, children, initialEntries, entries, installed, language, packageManager,
                 isPackageManagerAvailable, procCwd, step, exitCode>>

(***************************************************************************)
(* main(), lines 92-123: the two list prompts.                             *)
(***************************************************************************)
SelectLanguage(lang) ==
  /\ pc = "language_prompt"
  /\ lang \in Languages
  /\ language' = lang
  /\ events' = Append(events, PromptShown("packageManager", PackageManagerChoices(lang)))
  /\ pc' = "package_manager_prompt"
  /\ UNCHANGED <<revision, args, children, initialEntries, entries, installed, projectName, useCurrentDir, targetDir,
                 packageManager, isPackageManagerAvailable, procCwd, step, exitCode,
                 lastInput, reprompts>>

\* The answer is one of the choices the prompt showed; the probe starts at once.
\* Variant of the earlier revisions (src/index.js): no availability check.
SelectPackageManagerNoProbe(pm) ==
  /\ pc = "package_manager_prompt"
  /\ pm \in events[Len(events)].choices
  /\ packageManager' = pm
  /\ pc' = "prepare_directory"
  /\ UNCHANGED <<revision, args, children, initialEntries, entries, installed, projectName, useCurrentDir, targetDir,
                 language, isPackageManagerAvailable, procCwd, step, events, exitCode,
                 lastInput, reprompts>>
SelectPackageManager(pm) ==
  /\ pc = "package_manager_prompt"
  /\ pm \in events[Len(events)].choices
  /\ packageManager' = pm
  /\ pc' = "probe_package_manager"
  /\ UNCHANGED <<revision, args, children, initialEntries, entries, installed, projectName, useCurrentDir, targetDir,
                 language, isPackageManagerAvailable, procCwd, step, events, exitCode,
                 lastInput, reprompts>>

(***************************************************************************)
(* main(), lines 125-170: availability of the package manager.             *)
(***************************************************************************)
\* main().catch, lines 342-345: a rejection that reaches main()'s caller.
UnexpectedError(event) ==
  /\ events' = events \o <<event, ConsoleLog("unexpected_error")>>
  /\ exitCode' = {1}
  /\ pc' = "exited"

\* Faulty variant: the branch exits without a word.
MissingToolSilent(pm) == <<>>
MissingTool(pm) ==
  <<ConsoleLog("not_installed"), ConsoleLog("please_install"), InstallHint(pm)>>

ProbePackageManager(outcome) ==
  /\ pc = "probe_package_manager"
  /\ children # <<>>
  /\ Head(children) = packageManager
  /\ children' = Tail(children)
  /\ outcome \in Outcomes(packageManager)
  /\ installed' = Learn(packageManager, outcome)
  /\ IF ~CheckCommandAvailable(outcome).returns
       THEN /\ UnexpectedError(Probe(packageManager, outcome))
            /\ UNCHANGED isPackageManagerAvailable
       ELSE /\ isPackageManagerAvailable' = CheckCommandAvailable(outcome).value
            /\ IF CheckCommandAvailable(outcome).value
                 THEN /\ events' = Append(events, Probe(packageManager, outcome))
                      /\ pc' = "prepare_directory"
                      /\ UNCHANGED exitCode
                 ELSE IF packageManager \in NodeFallback
                   THEN /\ events' = Append(events, Probe(packageManager, outcome))
                        /\ pc' = "probe_node"
                        /\ UNCHANGED exitCode
                   ELSE /\ events' = events \o <<Probe(packageManager, outcome)>>
                                            \o MissingTool(packageManager)
                        /\ exitCode' = {1}
                        /\ pc' = "exited"
  /\ UNCHANGED <<revision, args, initialEntries, entries, projectName, useCurrentDir, targetDir, language,
                 packageManager, procCwd, step, lastInput, reprompts>>

ProbeNode(outcome) ==
  /\ pc = "probe_node"
  /\ children # <<>>
  /\ Head(children) = "node"
  /\ children' = Tail(children)
  /\ outcome \in Outcomes("node")
  /\ installed' = Learn("node", outcome)
  /\ IF ~CheckCommandAvailable(outcome).returns
       THEN /\ UnexpectedError(Probe("node", outcome))
            /\ UNCHANGED isPackageManagerAvailable
       ELSE /\ isPackageManagerAvailable' = CheckCommandAvailable(outcome).value
            /\ IF CheckCommandAvailable(outcome).value
                 THEN /\ events' = Append(events, Probe("node", outcome))
                      /\ pc' = "prepare_directory"
                      /\ UNCHANGED exitCode
                 ELSE /\ events' = events \o <<Probe("node", outcome)>>
                                          \o MissingTool(packageManager)
                      /\ exitCode' = {1}
                      /\ pc' = "exited"
  /\ UNCHANGED <<revision, args, initialEntries, entries, projectName, useCurrentDir, targetDir, language,
                 packageManager, procCwd, step, lastInput, reprompts>>

(***************************************************************************)
(* main(), lines 172-192: the target directory is checked and created.     *)
(***************************************************************************)
PrepareDirectory(mkdirOk) ==
  /\ pc = "prepare_directory"
  /\ IF useCurrentDir /\ ExistsSync(entries, targetDir)
          /\ Cardinality(ReaddirSync(entries, targetDir)) > 0
       THEN /\ events' = Append(events, ConsoleLog("directory_not_empty"))
            /\ exitCode' = {1}
            /\ pc' = "exited"
            /\ UNCHANGED entries
       ELSE IF ~useCurrentDir
         THEN IF ExistsSync(entries, targetDir)
                THEN /\ events' = Append(events, ConsoleLog("directory_exists"))
                     /\ exitCode' = {1}
                     /\ pc' = "exited"
                     /\ UNCHANGED entries
                ELSE IF mkdirOk
                  THEN /\ entries' = MkdirRecursive(entries, targetDir)
                       /\ events' = events \o <<ConsoleLog("creating_app"),
                                                Mkdir(targetDir, TRUE)>>
                       /\ pc' = "change_directory"
                       /\ UNCHANGED exitCode
                  ELSE /\ events' = events \o <<ConsoleLog("creating_app"),
                                                Mkdir(targetDir, FALSE),
                                                ConsoleLog("mkdir_error")>>
                       /\ exitCode' = {1}
                       /\ pc' = "exited"
                       /\ UNCHANGED entries
         ELSE /\ pc' = "change_directory"
              /\ UNCHANGED <<entries, events, exitCode>>
  /\ UNCHANGED <<revision, args, children, initialEntries, installed, projectName, useCurrentDir, targetDir, language,
                 packageManager, isPackageManagerAvailable, procCwd, step, lastInput,
                 reprompts>>

(***************************************************************************)
(* main(), lines 194-203: process.chdir(targetDir).                        *)
(***************************************************************************)
\* Variant of the earliest revisions (src/index.js): the scaffold commands run
\* where the tool was started, without a chdir.
ChangeDirectoryNoSwitch(ok) ==
  /\ pc = "change_directory"
  /\ ok
  /\ events' = Append(events, ConsoleLog("setting_up"))
  /\ step' = 1
  /\ pc' = "sequence"
  /\ UNCHANGED <<revision, args, children, initialEntries, entries, installed, projectName, useCurrentDir, targetDir,
                 language, packageManager, isPackageManagerAvailable, procCwd, exitCode,
                 lastInput, reprompts>>
ChangeDirectory(ok) ==
  /\ pc = "change_directory"
  /\ IF ok
       THEN /\ procCwd' = targetDir
            /\ events' = events \o <<Chdir(targetDir, TRUE), ConsoleLog("setting_up")>>
            /\ step' = 1
            /\ pc' = "sequence"
            /\ UNCHANGED exitCode
       ELSE /\ events' = events \o <<Chdir(targetDir, FALSE), ConsoleLog("chdir_error")>>
            /\ exitCode' = {1}
            /\ pc' = "exited"
            /\ UNCHANGED <<procCwd, step>>
  /\ UNCHANGED <<revision, args, children, initialEntries, entries, installed, projectName, useCurrentDir, targetDir,
                 language, packageManager, isPackageManagerAvailable, lastInput, reprompts>>

(***************************************************************************)
(* main(), lines 205-336: the command sequence, one slot at a time.        *)
(***************************************************************************)
CurrentSlotIndex == NextSlot(CommandSequence(packageManager), step, entries, procCwd)
SequenceFinished == CurrentSlotIndex > Len(CommandSequence(packageManager))
CurrentSlot == CommandSequence(packageManager)[CurrentSlotIndex]

\* runCommand: the child runs in the working directory or in { cwd: targetDir }.
RunCommand(outcome, extra) ==
  /\ pc = "sequence"
  /\ children # <<>>
  /\ Head(children) = CurrentSlot.cmd
  /\ children' = Tail(children)
  /\ ~SequenceFinished
  /\ CurrentSlot.kind = "cmd"
  /\ outcome \in Outcomes(CurrentSlot.cmd)
  /\ extra \in SUBSET CurrentSlot.mayCreate
  /\ LET slot == CurrentSlot
         dir == IF slot.cwdOption THEN targetDir ELSE procCwd
     IN /\ installed' = Learn(slot.cmd, outcome)
        /\ IF outcome = "ok"
             THEN /\ extra \in SUBSET slot.mayCreate
                  /\ entries' = entries \cup {Append(dir, f) : f \in slot.creates \cup extra}
                  /\ events' = events \o <<Run(slot, outcome, dir), ConsoleLog("success")>>
                  /\ step' = CurrentSlotIndex + 1
                  /\ UNCHANGED <<pc, exitCode>>
             ELSE /\ extra = {}
                  /\ events' = events \o <<Run(slot, outcome, dir),
                                           ConsoleLog(RunCommandCatch(outcome).diagnostic)>>
                  /\ IF RunCommandCatch(outcome).exits
                       THEN /\ exitCode' = {RunCommandCatch(outcome).code}
                            /\ pc' = "exited"
                            /\ UNCHANGED step
                       ELSE /\ step' = CurrentSlotIndex + 1
                            /\ UNCHANGED <<pc, exitCode>>
                  /\ entries' = FilesAfterFailure(entries, targetDir)
  /\ UNCHANGED <<revision, args, initialEntries, projectName, useCurrentDir, targetDir, language, packageManager,
                 isPackageManagerAvailable, procCwd, lastInput, reprompts>>

\* The tsconfig.json written directly for deno, inside try/catch.
WriteTsconfig(ok) ==
  /\ pc = "sequence"
  /\ ~SequenceFinished
  /\ CurrentSlot.kind = "write"
  /\ IF ok
       THEN /\ entries' = entries \cup {Append(procCwd, f) : f \in CurrentSlot.creates}
            /\ events' = events \o <<Write(TsconfigJson, TRUE), ConsoleLog("success")>>
            /\ step' = CurrentSlotIndex + 1
            /\ UNCHANGED <<pc, exitCode>>
       ELSE /\ events' = events \o <<Write(TsconfigJson, FALSE), ConsoleLog("tsconfig_error")>>
            /\ exitCode' = {1}
            /\ pc' = "exited"
            /\ entries' = FilesAfterFailure(entries, targetDir)
            /\ UNCHANGED step
  /\ UNCHANGED <<revision, args, children, initialEntries, installed, projectName, useCurrentDir, targetDir, language,
                 packageManager, isPackageManagerAvailable, procCwd, lastInput, reprompts>>

\* The advisory printed after deno's generate.
PrintNote ==
  /\ pc = "sequence"
  /\ ~SequenceFinished
  /\ CurrentSlot.kind = "note"
  /\ events' = Append(events, ConsoleLog(CurrentSlot.role))
  /\ step' = CurrentSlotIndex + 1
  /\ UNCHANGED <<revision, args, children, initialEntries, entries, installed, pc, projectName, useCurrentDir, targetDir,
                 language, packageManager, isPackageManagerAvailable, procCwd, exitCode,
                 lastInput, reprompts>>

\* main(), lines 338-339: main() returns and the process ends with code 0.
Finish ==
  /\ pc = "sequence"
  /\ SequenceFinished
  /\ events' = events \o <<ConsoleLog("all_done"), ConsoleLog("next_steps")>>
  /\ exitCode' = {0}
  /\ pc' = "exited"
  /\ UNCHANGED <<revision, args, children, initialEntries, entries, installed, projectName, useCurrentDir, targetDir,
                 language, packageManager, isPackageManagerAvailable, procCwd, step,
                 lastInput, reprompts>>

(***************************************************************************)
(* execa: every external command is a child process that main() awaits.    *)
(* SpawnChild starts the child of the command main() has arrived at; the   *)
(* probe and runCommand actions above are its exit.                        *)
(***************************************************************************)
\* Faulty variant: the promise is not awaited.
AwaitingNothing(ch) == FALSE
\* `await execa(...)`: main() is suspended while its child is alive.
Awaiting(ch) == ch # <<>>

SpawnChild ==
  /\ ~Awaiting(children)
  /\ \/ pc = "probe_package_manager" /\ children' = Append(children, packageManager)
     \/ pc = "probe_node" /\ children' = Append(children, "node")
     \/ /\ pc = "sequence"
        /\ ~SequenceFinished
        /\ CurrentSlot.kind = "cmd"
        /\ children' = Append(children, CurrentSlot.cmd)
  /\ UNCHANGED <<revision, args, initialEntries, entries, installed, pc, projectName, useCurrentDir,
                 targetDir, language, packageManager, isPackageManagerAvailable, procCwd,
                 step, events, exitCode, lastInput, reprompts>>

(***************************************************************************)
(* Specifications.                                                         *)
(***************************************************************************)
Next ==
  \/ ParseArguments
  \/ \E input \in PromptInputs : SubmitProjectName(input)
  \/ \E lang \in Languages : SelectLanguage(lang)
  \/ \E pm \in PackageManagers : SelectPackageManager(pm)
  \/ SpawnChild
  \/ \E outcome \in {"ok", "error", "enoent"} : ProbePackageManager(outcome)
  \/ \E outcome \in {"ok", "error", "enoent"} : ProbeNode(outcome)
  \/ \E mkdirOk \in BOOLEAN : PrepareDirectory(mkdirOk)
  \/ \E ok \in BOOLEAN : ChangeDirectory(ok)
  \/ \E outcome \in {"ok", "error", "enoent"}, extra \in SUBSET {PackageJson} :
       RunCommand(outcome, extra)
  \/ \E ok \in BOOLEAN : WriteTsconfig(ok)
  \/ PrintNote
  \/ Finish

Spec == Init /\ [][Next]_vars

\* Every prompt is answered and every child process exits: a step that can be
\* taken is taken.
SpecFair == Spec /\ WF_vars(Next)

\* The name prompt alone, with every string up to MaxNameLen typed at it.
NextPrompt ==
  \/ ParseArguments
  \/ \E input \in AllNames : SubmitProjectName(input)

SpecPrompt == Init /\ [][NextPrompt]_vars

(***************************************************************************)
(* The two revisions before the latest one (src/index.js, second half, and *)
(* src/unnamed/part_001).  Their runCommand prints `Error: <message>` and  *)
(* calls process.exit(1) inside its own catch; main() wraps some of the    *)
(* calls in try/catch blocks that print an installation hint.  A run is    *)
(* modelled from the language prompt on: index.js starts there in whatever *)
(* directory it was launched; part_001 arrives there after its directory   *)
(* checks, in an empty current directory or in the directory it created.   *)
(***************************************************************************)
\* The package managers offered by both revisions (no bun yet).
PackageManagerChoicesEarlier(lang) ==
  CASE lang = "Python" -> {"pip", "poetry", "uv"}
    [] lang = "TypeScript" -> {"npm", "pnpm", "yarn", "deno"}
    [] lang = "Ruby" -> {"bundle"}

\* The links printed by the caller-side catch blocks.
InstallLinkEarlier(pm) ==
  CASE pm = "pip" -> "https://pip.pypa.io/en/stable/installation/"
    [] pm = "poetry" -> "https://python-poetry.org/docs/#installation"
    [] pm = "uv" -> "https://github.com/astral-sh/uv#installation"
    [] pm = "npm" -> "https://docs.npmjs.com/downloading-and-installing-node-js-and-npm"
    [] pm = "pnpm" -> "https://pnpm.io/installation"
    [] pm = "yarn" -> "https://classic.yarnpkg.com/en/docs/install"
    [] pm = "deno" -> "https://deno.land/#installation"
    [] pm = "bundle" -> "https://bundler.io/#getting-started"
    [] OTHER -> ""

\* A call of runCommand and the catch block main() wraps it in: "none" (bare
\* call), "hint" (not installed, please install, link), "ts_hint" (failed to
\* install TypeScript, please install, link) or "tsconfig" (error creating
\* tsconfig.json).
CmdEarlier(unless, cmd, a, role, creates, catch) ==
  [kind |-> "cmd", unless |-> unless, cmd |-> cmd, args |-> a, role |-> role,
   creates |-> creates, mayCreate |-> {}, cwdOption |-> FALSE, catch |-> catch]

\* part_001, lines 236-252: deno's tsconfig.json is written directly.
WriteFileEarlier(unless, file) ==
  [kind |-> "write", unless |-> unless, cmd |-> "writeFileSync", args |-> <<>>,
   role |-> "tsconfig", creates |-> {file}, mayCreate |-> {}, cwdOption |-> FALSE,
   catch |-> "tsconfig"]

PoetryInitArgs ==
  <<"init", "--name=baml-project", "--description=A BAML project",
    "--author=", "--python=^3.8", "--no-interaction">>
DenoGenerateArgs == <<"run", "--unstable-sloppy-imports", "-A", DenoCli, "generate">>

\* src/index.js, lines 168-243.
CommandSequenceIndexJs(pm) ==
  CASE pm = "pip" -> <<
         CmdEarlier(RequirementsTxt, "touch", <<"requirements.txt">>, "manifest",
                    {RequirementsTxt}, "none"),
         CmdEarlier(NoFile, "pip", <<"install", "baml-py">>, "add", {}, "hint"),
         CmdEarlier(NoFile, "baml-cli", <<"init">>, "init", {}, "none"),
         CmdEarlier(NoFile, "baml-cli", <<"generate">>, "generate", {}, "none") >>
    [] pm = "poetry" -> <<
         CmdEarlier(PyprojectToml, "poetry", PoetryInitArgs, "manifest", {PyprojectToml}, "none"),
         CmdEarlier(NoFile, "poetry", <<"add", "baml-py">>, "add", {}, "none"),
         CmdEarlier(NoFile, "poetry", <<"run", "baml-cli", "init">>, "init", {}, "none"),
         CmdEarlier(NoFile, "poetry", <<"run", "baml-cli", "generate">>, "generate", {}, "none") >>
    [] pm = "uv" -> <<
         CmdEarlier(PyprojectToml, "uv", <<"init">>, "manifest", {PyprojectToml}, "none"),
         CmdEarlier(NoFile, "uv", <<"add", "baml-py">>, "add", {}, "none"),
         CmdEarlier(NoFile, "uv", <<"run", "baml-cli", "init">>, "init", {}, "none"),
         CmdEarlier(NoFile, "uv", <<"run", "baml-cli", "generate">>, "generate", {}, "none") >>
    [] pm = "npm" -> <<
         CmdEarlier(TsconfigJson, "npx", <<"tsc", "--init">>, "tsconfig", {TsconfigJson}, "none"),
         CmdEarlier(NoFile, "npm", <<"install", "@boundaryml/baml">>, "add", {}, "none"),
         CmdEarlier(NoFile, "npx", <<"baml-cli", "init">>, "init", {}, "none"),
         CmdEarlier(NoFile, "npx", <<"baml-cli", "generate">>, "generate", {}, "none") >>
    [] pm = "pnpm" -> <<
         CmdEarlier(TsconfigJson, "npx", <<"tsc", "--init">>, "tsconfig", {TsconfigJson}, "none"),
         CmdEarlier(NoFile, "pnpm", <<"add", "@boundaryml/baml">>, "add", {}, "none"),
         CmdEarlier(NoFile, "pnpm", <<"exec", "baml-cli", "init">>, "init", {}, "none"),
         CmdEarlier(NoFile, "npx", <<"baml-cli", "generate">>, "generate", {}, "none") >>
    [] pm = "yarn" -> <<
         CmdEarlier(TsconfigJson, "npx", <<"tsc", "--init">>, "tsconfig", {TsconfigJson}, "none"),
         CmdEarlier(NoFile, "yarn", <<"add", "@boundaryml/baml">>, "add", {}, "none"),
         CmdEarlier(NoFile, "yarn", <<"baml-cli", "init">>, "init", {}, "none"),
         CmdEarlier(NoFile, "npx", <<"baml-cli", "generate">>, "generate", {}, "none") >>
    [] pm = "deno" -> <<
         CmdEarlier(TsconfigJson, "npx", <<"tsc", "--init">>, "tsconfig", {TsconfigJson}, "none"),
         CmdEarlier(DenoJson, "deno", <<"init">>, "manifest", {DenoJson}, "none"),
         CmdEarlier(NoFile, "deno", <<"install", "npm:@boundaryml/baml">>, "add", {}, "none"),
         CmdEarlier(NoFile, "deno", <<"run", "-A", DenoCli, "init">>, "init", {}, "none"),
         CmdEarlier(NoFile, "deno", DenoGenerateArgs, "generate", {}, "none") >>
    [] pm = "bundle" -> <<
         CmdEarlier(Gemfile, "bundle", <<"init">>, "manifest", {Gemfile}, "none"),
         CmdEarlier(NoFile, "bundle", <<"add", "baml", "sorbet-runtime">>, "add", {}, "none"),
         CmdEarlier(NoFile, "bundle", <<"exec", "baml-cli", "init">>, "init", {}, "none"),
         CmdEarlier(NoFile, "bundle", <<"exec", "baml-cli", "generate">>, "generate", {}, "none") >>

\* src/unnamed/part_001, lines 140-333.
CommandSequencePart001(pm) ==
  CASE pm = "pip" -> <<
         CmdEarlier(RequirementsTxt, "touch", <<"requirements.txt">>, "manifest",
                    {RequirementsTxt}, "none"),
         CmdEarlier(NoFile, "pip", <<"install", "baml-py">>, "add", {}, "hint"),
         CmdEarlier(NoFile, "baml-cli", <<"init">>, "init", {}, "none"),
         CmdEarlier(NoFile, "baml-cli", <<"generate">>, "generate", {}, "none") >>
    [] pm = "poetry" -> <<
         CmdEarlier(PyprojectToml, "poetry", PoetryInitArgs, "manifest", {PyprojectToml}, "hint"),
         CmdEarlier(NoFile, "poetry", <<"add", "baml-py">>, "add", {}, "none"),
         CmdEarlier(NoFile, "poetry", <<"run", "baml-cli", "init">>, "init", {}, "none"),
         CmdEarlier(NoFile, "poetry", <<"run", "baml-cli", "generate">>, "generate", {}, "none") >>
    [] pm = "uv" -> <<
         CmdEarlier(PyprojectToml, "uv", <<"init">>, "manifest", {PyprojectToml}, "hint"),
         CmdEarlier(NoFile, "uv", <<"add", "baml-py">>, "add", {}, "none"),
         CmdEarlier(NoFile, "uv", <<"run", "baml-cli", "init">>, "init", {}, "none"),
         CmdEarlier(NoFile, "uv", <<"run", "baml-cli", "generate">>, "generate", {}, "none") >>
    [] pm = "npm" -> <<
         CmdEarlier(NoFile, "npm", <<"install", "typescript", "--save-dev">>, "typescript",
                    {}, "ts_hint"),
         CmdEarlier(TsconfigJson, "npx", <<"tsc", "--init">>, "tsconfig", {TsconfigJson},
                    "tsconfig"),
         CmdEarlier(NoFile, "npm", <<"--version">>, "version", {}, "hint"),
         CmdEarlier(NoFile, "npm", <<"install", "@boundaryml/baml">>, "add", {}, "none"),
         CmdEarlier(NoFile, "npx", <<"baml-cli", "init">>, "init", {}, "none"),
         CmdEarlier(NoFile, "npx", <<"baml-cli", "generate">>, "generate", {}, "none") >>
    [] pm = "pnpm" -> <<
         CmdEarlier(NoFile, "pnpm", <<"add", "typescript", "-D">>, "typescript", {}, "ts_hint"),
         CmdEarlier(TsconfigJson, "pnpm", <<"exec", "tsc", "--init">>, "tsconfig",
                    {TsconfigJson}, "tsconfig"),
         CmdEarlier(NoFile, "pnpm", <<"--version">>, "version", {}, "hint"),
         CmdEarlier(NoFile, "pnpm", <<"add", "@boundaryml/baml">>, "add", {}, "none"),
         CmdEarlier(NoFile, "pnpm", <<"exec", "baml-cli", "init">>, "init", {}, "none"),
         CmdEarlier(NoFile, "npx", <<"baml-cli", "generate">>, "generate", {}, "none") >>
    [] pm = "yarn" -> <<
         CmdEarlier(NoFile, "yarn", <<"add", "typescript", "--dev">>, "typescript", {}, "ts_hint"),
         CmdEarlier(TsconfigJson, "yarn", <<"tsc", "--init">>, "tsconfig", {TsconfigJson},
                    "tsconfig"),
         CmdEarlier(NoFile, "yarn", <<"--version">>, "version", {}, "hint"),
         CmdEarlier(NoFile, "yarn", <<"add", "@boundaryml/baml">>, "add", {}, "none"),
         CmdEarlier(NoFile, "yarn", <<"baml-cli", "init">>, "init", {}, "none"),
         CmdEarlier(NoFile, "npx", <<"baml-cli", "generate">>, "generate", {}, "none") >>
    [] pm = "deno" -> <<
         WriteFileEarlier(TsconfigJson, TsconfigJson),
         CmdEarlier(NoFile, "deno", <<"--version">>, "version", {}, "hint"),
         CmdEarlier(DenoJson, "deno", <<"init">>, "manifest", {DenoJson}, "none"),
         CmdEarlier(NoFile, "deno", <<"install", "npm:@boundaryml/baml">>, "add", {}, "none"),
         CmdEarlier(NoFile, "deno", <<"run", "-A", DenoCli, "init">>, "init", {}, "none"),
         CmdEarlier(NoFile, "deno", DenoGenerateArgs, "generate", {}, "none") >>
    [] pm = "bundle" -> <<
         CmdEarlier(NoFile, "bundle", <<"--version">>, "version", {}, "hint"),
         CmdEarlier(Gemfile, "bundle", <<"init">>, "manifest", {Gemfile}, "none"),
         CmdEarlier(NoFile, "bundle", <<"add", "baml", "sorbet-runtime">>, "add", {}, "none"),
         CmdEarlier(NoFile, "bundle", <<"exec", "baml-cli", "init">>, "init", {}, "none"),
         CmdEarlier(NoFile, "bundle", <<"exec", "baml-cli", "generate">>, "generate", {}, "none") >>

CommandSequenceEarlier(rev, pm) ==
  IF rev = "index.js" THEN CommandSequenceIndexJs(pm) ELSE CommandSequencePart001(pm)

\* Faulty variant: the runner prints its message and throws the error on.
RunCommandEarlierCatchRethrows(outcome) ==
  [diagnostic |-> "command_error", exits |-> FALSE, raises |-> TRUE]
\* runCommand's catch block in both revisions: `Error: <message>`, then
\* process.exit(1); nothing is thrown to the caller.
RunCommandEarlierCatch(outcome) ==
  [diagnostic |-> "command_error", exits |-> TRUE, raises |-> FALSE]

\* What the caller prints when a call raises: its own catch block, or
\* main().catch for a bare call.  Each ends with process.exit(1).
CallerCatchEarlier(catch, pm) ==
  CASE catch = "hint" ->
         <<ConsoleLog("not_installed"), ConsoleLog("please_install"),
           [type |-> "print", what |-> "install_link", link |-> InstallLinkEarlier(pm)]>>
    [] catch = "ts_hint" ->
         <<ConsoleLog("ts_install_failed"), ConsoleLog("please_install"),
           [type |-> "print", what |-> "install_link", link |-> InstallLinkEarlier(pm)]>>
    [] catch = "tsconfig" -> <<ConsoleLog("tsconfig_error")>>
    [] OTHER -> <<ConsoleLog("unexpected_error")>>

\* What index.js may find in the directory it is launched in.
PreExistingEarlier == {Append(Cwd0, RequirementsTxt), Append(Cwd0, TsconfigJson)}

InitEarlier ==
  /\ revision \in EarlierRevisions
  /\ args = <<>>
  /\ IF revision = "index.js"
       THEN /\ projectName = Undefined
            /\ useCurrentDir = FALSE
            /\ targetDir = NoPath
            /\ procCwd = Cwd0
            /\ \E pre \in SUBSET PreExistingEarlier : initialEntries = {<<>>, Cwd0} \cup pre
            /\ entries = initialEntries
            /\ events = <<>>
       ELSE /\ projectName \in {Dot, <<"a">>}
            /\ useCurrentDir = (projectName = Dot)
            /\ targetDir = IF useCurrentDir THEN Cwd0 ELSE Append(Cwd0, projectName)
            /\ procCwd = targetDir
            /\ initialEntries = {<<>>, Cwd0}
            /\ entries = MkdirRecursive(initialEntries, targetDir)
            /\ events = <<Chdir(targetDir, TRUE)>>
  /\ installed = [e \in Executables |-> "unknown"]
  /\ pc = "language_prompt"
  /\ language = ""
  /\ packageManager = ""
  /\ isPackageManagerAvailable = FALSE
  /\ step = 0
  /\ exitCode = {}
  /\ children = <<>>
  /\ lastInput = IF projectName = Undefined THEN Undefined ELSE projectName
  /\ reprompts = 0

SelectLanguageEarlier(lang) ==
  /\ pc = "language_prompt"
  /\ lang \in Languages
  /\ language' = lang
  /\ events' = Append(events, PromptShown("packageManager", PackageManagerChoicesEarlier(lang)))
  /\ pc' = "package_manager_prompt"
  /\ UNCHANGED <<revision, args, children, initialEntries, entries, installed, projectName,
                 useCurrentDir, targetDir, packageManager, isPackageManagerAvailable,
                 procCwd, step, exitCode, lastInput, reprompts>>

\* The answer goes straight to the commands: there is no availability check.
SelectPackageManagerEarlier(pm) ==
  /\ pc = "package_manager_prompt"
  /\ pm \in events[Len(events)].choices
  /\ packageManager' = pm
  /\ events' = Append(events, ConsoleLog("setting_up"))
  /\ step' = 1
  /\ pc' = "sequence"
  /\ UNCHANGED <<revision, args, children, initialEntries, entries, installed, projectName,
                 useCurrentDir, targetDir, language, isPackageManagerAvailable, procCwd,
                 exitCode, lastInput, reprompts>>

CurrentSlotIndexEarlier ==
  NextSlot(CommandSequenceEarlier(revision, packageManager), step, entries, procCwd)
SequenceFinishedEarlier ==
  CurrentSlotIndexEarlier > Len(CommandSequenceEarlier(revision, packageManager))
CurrentSlotEarlier == CommandSequenceEarlier(revision, packageManager)[CurrentSlotIndexEarlier]

\* One call of runCommand together with the try/catch main() wraps it in.
RunCommandEarlier(outcome) ==
  /\ pc = "sequence"
  /\ ~SequenceFinishedEarlier
  /\ CurrentSlotEarlier.kind = "cmd"
  /\ outcome \in Outcomes(CurrentSlotEarlier.cmd)
  /\ LET slot == CurrentSlotEarlier
         handler == RunCommandEarlierCatch(outcome)
     IN /\ installed' = Learn(slot.cmd, outcome)
        /\ IF outcome = "ok"
             THEN /\ entries' = entries \cup {Append(procCwd, f) : f \in slot.creates}
                  /\ events' = events \o <<Run(slot, outcome, procCwd), ConsoleLog("success")>>
                  /\ step' = CurrentSlotIndexEarlier + 1
                  /\ UNCHANGED <<pc, exitCode>>
             ELSE /\ UNCHANGED entries
                  /\ IF handler.exits
                       THEN /\ events' = events \o <<Run(slot, outcome, procCwd),
                                                     ConsoleLog(handler.diagnostic)>>
                            /\ exitCode' = {1}
                            /\ pc' = "exited"
                            /\ UNCHANGED step
                       ELSE IF handler.raises
                         THEN /\ events' = events \o <<Run(slot, outcome, procCwd),
                                                       ConsoleLog(handler.diagnostic)>>
                                             \o CallerCatchEarlier(slot.catch, packageManager)
                              /\ exitCode' = {1}
                              /\ pc' = "exited"
                              /\ UNCHANGED step
                         ELSE /\ events' = events \o <<Run(slot, outcome, procCwd),
                                                       ConsoleLog(handler.diagnostic)>>
                              /\ step' = CurrentSlotIndexEarlier + 1
                              /\ UNCHANGED <<pc, exitCode>>
  /\ UNCHANGED <<revision, args, children, initialEntries, projectName, useCurrentDir,
                 targetDir, language, packageManager, isPackageManagerAvailable, procCwd,
                 lastInput, reprompts>>

\* part_001, lines 236-256: writeFileSync inside the tsconfig try/catch.
WriteTsconfigEarlier(ok) ==
  /\ pc = "sequence"
  /\ ~SequenceFinishedEarlier
  /\ CurrentSlotEarlier.kind = "write"
  /\ IF ok
       THEN /\ entries' = entries \cup {Append(procCwd, f) : f \in CurrentSlotEarlier.creates}
            /\ events' = events \o <<Write(TsconfigJson, TRUE), ConsoleLog("success")>>
            /\ step' = CurrentSlotIndexEarlier + 1
            /\ UNCHANGED <<pc, exitCode>>
       ELSE /\ events' = events \o <<Write(TsconfigJson, FALSE), ConsoleLog("tsconfig_error")>>
            /\ exitCode' = {1}
            /\ pc' = "exited"
            /\ UNCHANGED <<entries, step>>
  /\ UNCHANGED <<revision, args, children, initialEntries, installed, projectName,
                 useCurrentDir, targetDir, language, packageManager,
                 isPackageManagerAvailable, procCwd, lastInput, reprompts>>

\* The end of main(): deno's editor note, then the closing messages.
FinishEarlier ==
  /\ pc = "sequence"
  /\ SequenceFinishedEarlier
  /\ events' = events
                 \o (IF packageManager = "deno" THEN <<ConsoleLog("deno_note")>> ELSE <<>>)
                 \o <<ConsoleLog("all_done"), ConsoleLog("next_steps")>>
  /\ exitCode' = {0}
  /\ pc' = "exited"
  /\ UNCHANGED <<revision, args, children, initialEntries, entries, installed, projectName,
                 useCurrentDir, targetDir, language, packageManager,
                 isPackageManagerAvailable, procCwd, step, lastInput, reprompts>>

NextEarlier ==
  \/ \E lang \in Languages : SelectLanguageEarlier(lang)
  \/ \E pm \in PackageManagers : SelectPackageManagerEarlier(pm)
  \/ \E outcome \in {"ok", "error", "enoent"} : RunCommandEarlier(outcome)
  \/ \E ok \in BOOLEAN : WriteTsconfigEarlier(ok)
  \/ FinishEarlier

SpecEarlier == InitEarlier /\ [][NextEarlier]_vars


(***************************************************************************)
(* Vocabulary of the properties.                                           *)
(***************************************************************************)
HasEvent(t) == \E i \in 1..Len(events) : events[i].type = t
Exited == pc = "exited"
TargetResolved == targetDir # NoPath
\* The run touched the target: created a directory, entered it, ran a scaffold
\* command or wrote a file.
TargetTouched ==
  HasEvent("mkdir") \/ HasEvent("chdir") \/ HasEvent("run") \/ HasEvent("write")
InstallHintPrinted ==
  \E i \in 1..Len(events) : events[i].type = "print" /\ events[i].what = "install_link"
RunList == [i \in 1..Len(EventsOf("run")) |->
              <<EventsOf("run")[i].cmd, EventsOf("run")[i].args>>]
AllRunsOk == \A i \in 1..Len(events) :
               /\ events[i].type = "run" => events[i].outcome = "ok"
               /\ events[i].type = "write" => events[i].ok

(***************************************************************************)
(* C1.  In any run where the chosen package manager's executable is not    *)
(* installed, the process prints an installation hint and exits with code  *)
(* 1, and the target directory is never created or modified.  The code     *)
(* breaks this for npm, pnpm and yarn when node answers its version query. *)
(***************************************************************************)
C1_MissingManagerHaltsUntouched ==
  (packageManager # "" /\ installed[packageManager] = "no") =>
    /\ ~TargetTouched
    /\ entries = initialEntries
    /\ Exited => (exitCode = {1} /\ InstallHintPrinted)

(***************************************************************************)
(* C2 (as stated).  In current-directory mode with a non-empty current     *)
(* directory the process exits with code 1 and no external command of any  *)
(* kind was executed before the exit.                                      *)
(***************************************************************************)
CurrentDirNonEmpty ==
  /\ TargetResolved
  /\ useCurrentDir
  /\ \E f \in PreExisting : f \in initialEntries

C2_NoExternalCommandAtAll ==
  (CurrentDirNonEmpty /\ Exited) =>
    (exitCode = {1} /\ ~HasEvent("probe") /\ ~HasEvent("run"))

(***************************************************************************)
(* C2 (amended).  In current-directory mode with a non-empty current       *)
(* directory the run never creates or enters a directory and never runs a  *)
(* scaffold command; the only child processes are the version queries of   *)
(* the availability check (the package manager, then node for npm, pnpm,   *)
(* yarn); the process exits with code 1.                                   *)
(***************************************************************************)
C2_NoScaffoldCommandInNonEmptyDir ==
  CurrentDirNonEmpty =>
    /\ ~TargetTouched
    /\ entries = initialEntries
    /\ procCwd = Cwd0
    /\ \A i \in 1..Len(events) :
         events[i].type = "probe" => events[i].cmd \in {packageManager, "node"}
    /\ Len(EventsOf("probe")) <= 2
    /\ Exited => exitCode = {1}
    /\ pc \notin {"change_directory", "sequence"}

C2_Witness ==
  /\ CurrentDirNonEmpty
  /\ Exited
  /\ Printed("directory_not_empty")
  /\ \E i \in 1..Len(events) : events[i].type = "probe" /\ events[i].outcome = "ok"

(***************************************************************************)
(* C3.  In new-directory mode, when the resolved target path already       *)
(* exists, the process exits with code 1 without calling mkdir, without    *)
(* changing the working directory and without running a scaffold command.  *)
(***************************************************************************)
TargetPreExists ==
  /\ TargetResolved
  /\ ~useCurrentDir
  /\ targetDir \in initialEntries

C3_ExistingTargetHaltsBeforeCreation ==
  TargetPreExists =>
    /\ ~TargetTouched
    /\ entries = initialEntries
    /\ procCwd = Cwd0
    /\ pc \notin {"change_directory", "sequence"}
    /\ Exited => exitCode = {1}

C3_Witness ==
  /\ TargetPreExists
  /\ Exited
  /\ Printed("directory_exists")
  /\ projectName = <<"a">>

(***************************************************************************)
(* C4.  When a step of the command sequence fails, no later step runs, the *)
(* failed step is not run again, the success message is not printed and    *)
(* the process exits with a non-zero code.                                 *)
(***************************************************************************)
StepFailedAt(i) ==
  \/ events[i].type = "run" /\ events[i].outcome # "ok"
  \/ events[i].type = "write" /\ ~events[i].ok

C4_FailFast ==
  \A i \in 1..Len(events) :
    StepFailedAt(i) =>
      /\ \A j \in (i + 1)..Len(events) : events[j].type = "print"
      /\ ~Printed("all_done")
      /\ ~Printed("deno_note")
      /\ Exited
      /\ exitCode = {1}

C4_Witness ==
  /\ Exited
  /\ Len(EventsOf("run")) >= 3
  /\ EventsOf("run")[1].outcome = "ok"
  /\ EventsOf("run")[Len(EventsOf("run"))].outcome = "error"
  /\ EventsOf("run")[Len(EventsOf("run"))].role = "init"

(***************************************************************************)
(* C5.  The package-manager prompt offers exactly the fixed set of the     *)
(* chosen language, and no pair outside the table reaches the command      *)
(* sequence.                                                               *)
(***************************************************************************)
ValidPairs ==
  {<<"Python", "pip">>, <<"Python", "poetry">>, <<"Python", "uv">>,
   <<"TypeScript", "npm">>, <<"TypeScript", "pnpm">>, <<"TypeScript", "yarn">>,
   <<"TypeScript", "deno">>, <<"TypeScript", "bun">>, <<"Ruby", "bundle">>}

CompletedEveryStep ==
  /\ Printed("all_done")
  /\ AllRunsOk
  /\ \E i \in 1..Len(events) :
       events[i].type = "run" /\ events[i].role = "generate" /\ events[i].outcome = "ok"

ToolMissing ==
  \E i \in 1..Len(events) :
    events[i].type \in {"probe", "run"} /\ events[i].outcome = "enoent"

CommandFailed ==
  \E i \in 1..Len(events) : events[i].type = "run" /\ events[i].outcome = "error"

C6_ExitCodes ==
  /\ ~Exited => exitCode = {}
  /\ Exited => exitCode \in {{0}, {1}}
  /\ Exited => (exitCode = {0} <=> (Printed("usage") \/ CompletedEveryStep))
  /\ (Exited /\ (TargetPreExists \/ CurrentDirNonEmpty \/ ToolMissing \/ CommandFailed))
       => exitCode = {1}

C6_Witness ==
  /\ Exited
  /\ exitCode = {0}
  /\ CompletedEveryStep
  /\ packageManager = "bundle"

(***************************************************************************)
(* C7.  With -h or --help anywhere in the arguments the run prints the     *)
(* usage text and exits with status 0: no prompt, no probe, no directory   *)
(* created or entered, no external command.                                *)
(***************************************************************************)
HelpFlagPresent ==
  \E i \in 1..Len(args) : args[i] = FlagHelpShort \/ args[i] = FlagHelpLong

C7_HelpDoesNothingElse ==
  HelpFlagPresent =>
    /\ pc \in {"start", "exited"}
    /\ ~HasEvent("prompt") /\ ~HasEvent("probe") /\ ~TargetTouched
    /\ entries = initialEntries
    /\ procCwd = Cwd0
    /\ Exited => (exitCode = {0} /\ events = <<ConsoleLog("welcome"), ConsoleLog("usage")>>)

C7_Witness ==
  /\ Exited
  /\ args = << <<"a">>, FlagHelpShort >>
  /\ Printed("usage")

(***************************************************************************)
(* C8.  The mode is current-directory exactly when the name is "." or the  *)
(* arguments contain --use-current-dir or -.; then the target is the       *)
(* working directory and no directory is created.  Otherwise the target is *)
(* the name resolved against the working directory, and that is the        *)
(* directory the run creates before entering it.                           *)
(***************************************************************************)
\* path.resolve of the names the model uses, written out.
ExpectedResolved(name) ==
  CASE name = <<"a">> -> << <<"w">>, <<"a">> >>
    [] name = <<"a", "/", "a">> -> << <<"w">>, <<"a">>, <<"a">> >>
    [] name = <<"a", " ">> -> << <<"w">>, <<"a", " ">> >>
    [] name = DotDot -> << >>
    [] name = DefaultProjectName -> << <<"w">>, <<"m", "y", "-", "a", "p", "p">> >>
    [] OTHER -> NoPath

C8_TargetModeAndPath ==
  TargetResolved =>
    /\ useCurrentDir <=>
         \/ projectName = Dot
         \/ \E i \in 1..Len(args) : args[i] = FlagUseCurrentDir \/ args[i] = FlagDot
    /\ useCurrentDir => (targetDir = Cwd0 /\ ~HasEvent("mkdir") /\ procCwd = Cwd0)
    /\ ~useCurrentDir =>
         /\ targetDir = ExpectedResolved(projectName)
         /\ (pc \in {"change_directory", "sequence"} \/ HasEvent("chdir")) =>
              (EventsOf("mkdir") = <<Mkdir(targetDir, TRUE)>> /\ targetDir \in entries)
    /\ \A i \in 1..Len(events) :
         events[i].type \in {"mkdir", "chdir"} => events[i].path = targetDir
    /\ pc = "sequence" => procCwd = targetDir

C8_Witness ==
  /\ pc = "sequence"
  /\ ~useCurrentDir
  /\ projectName = <<"a", "/", "a">>
  /\ procCwd = << <<"w">>, <<"a">>, <<"a">> >>
  /\ << <<"w">>, <<"a">> >> \notin initialEntries

(***************************************************************************)
(* C9.  At the name prompt a name of one or more letters, digits, dashes   *)
(* and underscores is accepted, "." is accepted, and every other string    *)
(* (the empty string, names with spaces, slashes or dots) is rejected with *)
(* a message and the prompt stays open; a rejected name never ends the     *)
(* run.  Checked under SpecPrompt.                                         *)
(***************************************************************************)
AcceptableName(s) ==
  \/ s = Dot
  \/ /\ Len(s) >= 1
     /\ \A i \in 1..Len(s) :
          s[i] \in LowerCase \/ s[i] \in UpperCase \/ s[i] \in Digits
            \/ s[i] = "-" \/ s[i] = "_"

PipCommands ==
  << <<"touch", <<"requirements.txt">> >>,
     <<"pip", <<"install", "baml-py">> >>,
     <<"baml-cli", <<"init">> >>,
     <<"baml-cli", <<"generate">> >> >>

ChdirDone == \E i \in 1..Len(events) : events[i].type = "chdir" /\ events[i].ok

C10_PipScenario ==
  (language = "Python" /\ packageManager = "pip") =>
    /\ Len(RunList) <= Len(PipCommands)
    /\ RunList = SubSeq(PipCommands, 1, Len(RunList))
    /\ (Exited /\ ChdirDone /\ AllRunsOk) =>
         /\ RunList = PipCommands
         /\ SubSeq(events, Len(events) - 1, Len(events))
              = <<ConsoleLog("all_done"), ConsoleLog("next_steps")>>
         /\ exitCode = {0}

C10_Witness ==
  /\ packageManager = "pip"
  /\ Exited
  /\ RunList = PipCommands
  /\ exitCode = {0}
  /\ Append(targetDir, RequirementsTxt) \in entries
  /\ Append(targetDir, RequirementsTxt) \notin initialEntries

(***************************************************************************)
(* C11.  With name ".", TypeScript and deno in an empty current directory  *)
(* and every step succeeding: no directory is created, deno.json is        *)
(* initialized (it is absent), then the dependency is installed, then init *)
(* and then generate are invoked through `deno run` with -A, and the       *)
(* editor-setting advisory is printed before the success message.          *)
(***************************************************************************)
DenoCommands ==
  << <<"deno", <<"init">> >>,
     <<"deno", <<"install", "npm:@boundaryml/baml">> >>,
     <<"deno", <<"run", "-A", "npm:@boundaryml/baml/baml-cli", "init">> >>,
     <<"deno", <<"run", "--unstable-sloppy-imports", "-A",
                 "npm:@boundaryml/baml/baml-cli", "generate">> >> >>

DenoInEmptyCurrentDir ==
  /\ projectName = Dot
  /\ language = "TypeScript"
  /\ packageManager = "deno"
  /\ \A p \in initialEntries : Len(p) <= Len(Cwd0)

C11_DenoScenario ==
  DenoInEmptyCurrentDir =>
    /\ ~HasEvent("mkdir")
    /\ Len(RunList) <= Len(DenoCommands)
    /\ RunList = SubSeq(DenoCommands, 1, Len(RunList))
    /\ \A i \in 1..Len(events) :
         (events[i].type = "run" /\ events[i].role \in {"init", "generate"}) =>
           /\ events[i].cmd = "deno"
           /\ events[i].args[1] = "run"
           /\ \E k \in 1..Len(events[i].args) : events[i].args[k] = "-A"
           /\ events[i].cwd = Cwd0
    /\ (Exited /\ ChdirDone /\ AllRunsOk) =>
         /\ RunList = DenoCommands
         /\ Append(Cwd0, DenoJson) \in entries
         /\ SubSeq(events, Len(events) - 2, Len(events))
              = <<ConsoleLog("deno_note"), ConsoleLog("all_done"), ConsoleLog("next_steps")>>
         /\ exitCode = {0}

C11_Witness ==
  /\ DenoInEmptyCurrentDir
  /\ Exited
  /\ exitCode = {0}
  /\ RunList = DenoCommands
  /\ Printed("deno_note")
  /\ args = << Dot >>

(***************************************************************************)
(* C12.  A run against a target that already holds the manifest file of    *)
(* the chosen package manager (a second run with the same name and         *)
(* selection), with every tool answering, skips the manifest-creation step *)
(* and still performs the dependency-add, init and generate steps.  The    *)
(* code never gets that far: the target-directory checks end the run.      *)
(***************************************************************************)
ManifestOf(pm) ==
  CASE pm = "pip" -> RequirementsTxt
    [] pm \in {"poetry", "uv"} -> PyprojectToml
    [] pm = "bundle" -> Gemfile
    [] pm = "deno" -> DenoJson
    [] OTHER -> PackageJson

ManifestPresentAtStart ==
  /\ TargetResolved
  /\ packageManager # ""
  /\ Append(targetDir, ManifestOf(packageManager)) \in initialEntries

NothingFailed ==
  /\ AllRunsOk
  /\ \A i \in 1..Len(events) :
       /\ events[i].type = "probe" => events[i].outcome = "ok"
       /\ events[i].type \in {"mkdir", "chdir"} => events[i].ok

RanOk(role) ==
  \E i \in 1..Len(events) :
    events[i].type = "run" /\ events[i].role = role /\ events[i].outcome = "ok"

C12_RerunSkipsManifestOnly ==
  (ManifestPresentAtStart /\ Exited /\ NothingFailed) =>
    /\ ~RanOk("manifest")
    /\ RanOk("add")
    /\ RanOk("init")
    /\ RanOk("generate")

(***************************************************************************)
(* C13.  For every pair and every run, the dependency-add step has         *)
(* completed successfully before the generation CLI's init starts, and     *)
(* init has completed successfully before generate starts; init and        *)
(* generate are never invoked in a run where the add step did not succeed, *)
(* and no step is run twice.                                               *)
(***************************************************************************)
RanOkBefore(role, i) ==
  \E j \in 1..(i - 1) :
    /\ events[j].type = "run" /\ events[j].role = role /\ events[j].outcome = "ok"
    /\ events[j + 1] = ConsoleLog("success")

C13_AddBeforeInitBeforeGenerate ==
  /\ \A i \in 1..Len(events) :
       events[i].type = "run" =>
         /\ events[i].role = "init" => RanOkBefore("add", i)
         /\ events[i].role = "generate" =>
              (RanOkBefore("add", i) /\ RanOkBefore("init", i))
         /\ events[i].role = "add" =>
              ~\E j \in 1..(i - 1) :
                 events[j].type = "run" /\ events[j].role \in {"init", "generate"}
  /\ \A i, j \in 1..Len(events) :
       (events[i].type = "run" /\ events[j].type = "run"
          /\ events[i].role = events[j].role) => i = j

C13_Witness ==
  /\ packageManager = "yarn"
  /\ Exited
  /\ exitCode = {1}
  /\ RanOk("add")
  /\ RanOk("init")
  /\ \E i \in 1..Len(events) :
       events[i].type = "run" /\ events[i].role = "generate" /\ events[i].outcome = "error"

(***************************************************************************)
(* C14.  The availability check returns true or false for every outcome of *)
(* the probed executable (success, non-zero exit, executable not found);   *)
(* it never raises into its caller and never ends the process: after a     *)
(* probe the run goes on, or it ends in the caller's missing-tool branch.  *)
(***************************************************************************)
C14_ProbeOnlyReturnsBoolean ==
  /\ isPackageManagerAvailable \in BOOLEAN
  /\ ~Printed("unexpected_error")
  /\ \A i \in 1..Len(events) :
       events[i].type = "probe" =>
         /\ events[i].outcome \in {"ok", "error", "enoent"}
         /\ i = Len(events) =>
              /\ ~Exited
              /\ exitCode = {}
              /\ isPackageManagerAvailable = (events[i].outcome = "ok")
              /\ ~isPackageManagerAvailable => pc = "probe_node"
         /\ (i < Len(events) /\ events[i].outcome # "ok") =>
              \/ events[i + 1].type = "probe"
              \/ events[i + 1] = ConsoleLog("not_installed")
         /\ (i < Len(events) /\ events[i].outcome = "ok") =>
              events[i + 1] \in {ConsoleLog("directory_not_empty"),
                                 ConsoleLog("directory_exists"),
                                 ConsoleLog("creating_app"),
                                 Chdir(targetDir, TRUE), Chdir(targetDir, FALSE)}

C14_Witness ==
  /\ Len(EventsOf("probe")) = 2
  /\ EventsOf("probe")[1].outcome = "enoent"
  /\ EventsOf("probe")[2].outcome = "error"
  /\ Exited
  /\ InstallHintPrinted

(***************************************************************************)
(* C15.  When a command run by runCommand fails, the runner prints the     *)
(* 'command not found' diagnostic if and only if the executable is         *)
(* missing, the tool's error message otherwise, and in both cases ends the *)
(* process with a non-zero exit code: nothing of the caller runs after it. *)
(***************************************************************************)
C15_RunnerDiagnosticThenExit ==
  \A i \in 1..Len(events) :
    (events[i].type = "run" /\ events[i].outcome # "ok") =>
      /\ Len(events) = i + 1
      /\ events[i + 1].type = "print"
      /\ events[i + 1].what = "command_not_found" <=> events[i].outcome = "enoent"
      /\ events[i + 1].what = "command_error" <=> events[i].outcome = "error"
      /\ Exited
      /\ exitCode = {1}

C15_Witness ==
  /\ Exited
  /\ packageManager = "pip"
  /\ Len(EventsOf("run")) = 3
  /\ EventsOf("run")[3].cmd = "baml-cli"
  /\ EventsOf("run")[3].outcome = "enoent"
  /\ events[Len(events)] = ConsoleLog("command_not_found")

(***************************************************************************)
(* C16.  Every run that exits with a non-zero code has printed an explicit *)
(* error reason right before the exit, and every run that ends without the *)
(* success message has reported something: the usage text or an error.     *)
(***************************************************************************)
ErrorReasons ==
  {"directory_not_empty", "directory_exists", "mkdir_error", "chdir_error",
   "command_not_found", "command_error", "tsconfig_error", "unexpected_error"}

LastPrintIsReason ==
  /\ Len(events) >= 1
  /\ events[Len(events)].type = "print"
  /\ \/ events[Len(events)].what \in ErrorReasons
     \/ /\ Len(events) >= 3
        /\ events[Len(events)].what = "install_link"
        /\ events[Len(events) - 1] = ConsoleLog("please_install")
        /\ events[Len(events) - 2] = ConsoleLog("not_installed")

C16_NoSilentHalt ==
  /\ (Exited /\ exitCode # {0}) => LastPrintIsReason
  /\ (Exited /\ ~Printed("all_done")) => (Printed("usage") \/ LastPrintIsReason)
  /\ Exited => exitCode # {}

C16_Witness ==
  /\ Exited
  /\ exitCode = {1}
  /\ packageManager = "uv"
  /\ events[Len(events)] = InstallHint("uv")
  /\ ~TargetTouched

(***************************************************************************)
(* C17 (as stated).  Every run that halts because an external tool (a      *)
(* package manager or the generation CLI) is not found in the search path  *)
(* has reported an installation link before exiting, whether the absence   *)
(* was found by the availability check or by a failed spawn.               *)
(***************************************************************************)
HaltedOnMissingTool ==
  /\ Exited
  /\ exitCode = {1}
  /\ \E i \in 1..Len(events) :
       /\ events[i].type \in {"probe", "run"}
       /\ events[i].outcome = "enoent"
       /\ \A j \in (i + 1)..Len(events) : events[j].type = "print"

C17_MissingToolAlwaysGetsLink ==
  HaltedOnMissingTool => InstallHintPrinted

(***************************************************************************)
(* C17 (amended).  A run that halts because the availability check found   *)
(* the chosen package manager unavailable has reported that manager's      *)
(* installation link before exiting; a run that halts on a failed spawn of *)
(* a scaffold command has reported 'command not found' and no link.        *)
(***************************************************************************)
ExpectedInstallLinks ==
  {<<"pip", "https://pip.pypa.io/en/stable/installation/">>,
   <<"poetry", "https://python-poetry.org/docs/#installation">>,
   <<"uv", "https://github.com/astral-sh/uv#installation">>,
   <<"npm", "https://docs.npmjs.com/downloading-and-installing-node-js-and-npm">>,
   <<"pnpm", "https://pnpm.io/installation">>,
   <<"yarn", "https://classic.yarnpkg.com/en/docs/install">>,
   <<"deno", "https://deno.land/#installation">>,
   <<"bundle", "https://bundler.io/#getting-started">>,
   <<"bun", "https://bun.sh/docs/installation">>}

C17_LinkOnlyFromAvailabilityCheck ==
  /\ (Exited /\ HasEvent("probe")
        /\ ~isPackageManagerAvailable /\ exitCode = {1}) =>
       /\ events[Len(events)].type = "print"
       /\ events[Len(events)].what = "install_link"
       /\ <<packageManager, events[Len(events)].link>> \in ExpectedInstallLinks
       /\ ~TargetTouched
  /\ \A i \in 1..Len(events) :
       (events[i].type = "run" /\ events[i].outcome = "enoent") =>
         /\ events[Len(events)] = ConsoleLog("command_not_found")
         /\ ~InstallHintPrinted
  /\ InstallHintPrinted => (Exited /\ ~isPackageManagerAvailable /\ ~HasEvent("run"))

C17_Witness ==
  /\ Exited
  /\ packageManager = "bun"
  /\ EventsOf("probe") = <<Probe("bun", "enoent")>>
  /\ events[Len(events)].type = "print"
  /\ events[Len(events)].what = "install_link"

(***************************************************************************)
(* C18.  In every run the phases occur in this order, none entered before  *)
(* the previous one finished: flag parsing, project-name resolution,       *)
(* language prompt, package-manager prompt, availability check of the      *)
(* chosen package manager, target-directory validation and creation,       *)
(* switch of the working directory, the command sequence, final status.    *)
(***************************************************************************)
PhaseOf(e) ==
  CASE e.type = "prompt" /\ e.name = "projectName" -> 2
    [] e.type = "prompt" /\ e.name = "language" -> 3
    [] e.type = "prompt" /\ e.name = "packageManager" -> 4
    [] e.type = "probe" -> 5
    [] e.type = "mkdir" -> 6
    [] e.type = "chdir" -> 7
    [] e.type \in {"run", "write"} -> 8
    [] e.type = "print" ->
         CASE e.what \in {"welcome", "usage"} -> 1
           [] e.what = "invalid_name" -> 2
           [] e.what = "lets_set_up" -> 3
           [] e.what \in {"not_installed", "please_install", "install_link"} -> 5
           [] e.what \in {"directory_not_empty", "directory_exists", "creating_app",
                          "mkdir_error"} -> 6
           [] e.what = "chdir_error" -> 7
           [] e.what \in {"all_done", "next_steps"} -> 9
           [] OTHER -> 8

ManifestEnsuredBeforeAdd ==
  \A i \in 1..Len(events) :
    (events[i].type = "run" /\ events[i].role = "add") =>
      \/ RanOkBefore("manifest", i)
      \/ Append(targetDir, ManifestOf(packageManager)) \in entries

C19_ManifestEnsuredForEveryManager == ManifestEnsuredBeforeAdd

(***************************************************************************)
(* C19 (amended).  For pip, poetry, uv, bundle, deno (deno.json) and bun   *)
(* (package.json) the command sequence ensures the manifest file exists    *)
(* before the dependency-add step of the code-generation package: a        *)
(* manifest-creation step runs first exactly when the file is absent at    *)
(* the check.  For npm, pnpm and yarn the sequence has no manifest check   *)
(* and no manifest-creation step.                                          *)
(***************************************************************************)
ManagersWithManifestStep == {"pip", "poetry", "uv", "bundle", "deno", "bun"}

HasRun(role) ==
  \E i \in 1..Len(events) : events[i].type = "run" /\ events[i].role = role

\* The step taken now starts the manifest-creation or the dependency-add command.
StartsManifestOrAdd ==
  /\ pc = "sequence"
  /\ ~HasRun("add")
  /\ Len(events') > Len(events)
  /\ events'[Len(events) + 1].type = "run"
  /\ events'[Len(events) + 1].role \in {"manifest", "add"}

C19_ManifestEnsuredWhereChecked ==
  /\ [](packageManager \in ManagersWithManifestStep => ManifestEnsuredBeforeAdd)
  /\ [](HasRun("manifest") => packageManager \in ManagersWithManifestStep)
  /\ [][(packageManager \in ManagersWithManifestStep /\ StartsManifestOrAdd) =>
          (events'[Len(events) + 1].role = "manifest"
             <=> Append(procCwd, ManifestOf(packageManager)) \notin entries)]_vars
  /\ [][(packageManager \notin ManagersWithManifestStep /\ StartsManifestOrAdd) =>
          events'[Len(events) + 1].role = "add"]_vars

C19_Witness ==
  /\ packageManager = "bun"
  /\ RanOk("add")
  /\ ~HasRun("manifest")
  /\ Append(targetDir, PackageJson) \in entries
  /\ Append(targetDir, PackageJson) \notin initialEntries

(***************************************************************************)
(* C20 (as stated).  For every pair the generate step is invoked the same  *)
(* way as the init step: the same executable and the same argument vector, *)
(* the only difference being the subcommand generate in place of init.     *)
(***************************************************************************)
RECURSIVE WithSubcommand(_, _)
WithSubcommand(a, sub) ==
  IF a = <<>> THEN <<>>
  ELSE IF Len(a) = 1 THEN <<sub>>
  ELSE <<Head(a)>> \o WithSubcommand(Tail(a), sub)

InitRunBefore(i) ==
  CHOOSE j \in 1..(i - 1) : events[j].type = "run" /\ events[j].role = "init"

SameInvocation(i) ==
  /\ events[i].cmd = events[InitRunBefore(i)].cmd
  /\ events[i].cwd = events[InitRunBefore(i)].cwd
  /\ events[InitRunBefore(i)].args[Len(events[InitRunBefore(i)].args)] = "init"
  /\ events[i].args = WithSubcommand(events[InitRunBefore(i)].args, "generate")

C20_GenerateInvokedLikeInit ==
  \A i \in 1..Len(events) :
    (events[i].type = "run" /\ events[i].role = "generate") => SameInvocation(i)

(***************************************************************************)
(* C20 (amended).  For every pair except TypeScript with deno the generate *)
(* step is invoked the same way as the init step, with generate in place   *)
(* of init; for deno generate is `deno run` with the additional flag       *)
(* --unstable-sloppy-imports before -A and is otherwise the same as init.  *)
(***************************************************************************)
C20_GenerateLikeInitExceptDeno ==
  \A i \in 1..Len(events) :
    (events[i].type = "run" /\ events[i].role = "generate") =>
      IF packageManager = "deno"
        THEN /\ events[i].cmd = events[InitRunBefore(i)].cmd
             /\ events[i].cwd = events[InitRunBefore(i)].cwd
             /\ events[i].args =
                  <<"run", "--unstable-sloppy-imports">>
                    \o WithSubcommand(Tail(events[InitRunBefore(i)].args), "generate")
             /\ events[InitRunBefore(i)].args[1] = "run"
        ELSE SameInvocation(i)

C20_Witness ==
  /\ packageManager = "pnpm"
  /\ RanOk("generate")
  /\ \E i \in 1..Len(events) :
       /\ events[i].type = "run"
       /\ events[i].role = "generate"
       /\ events[i].cmd = "pnpm"
       /\ events[i].args = <<"exec", "baml-cli", "generate">>

(***************************************************************************)
(* C21.  A type-checker configuration step (create tsconfig.json when      *)
(* absent) runs in every TypeScript run before the dependency-add step and *)
(* in no Python or Ruby run; it is skipped when tsconfig.json already      *)
(* exists; for npm, pnpm, yarn and bun the TypeScript compiler is          *)
(* installed before that step runs.                                        *)
(***************************************************************************)
IsTsconfigStep(e) ==
  \/ e.type = "run" /\ e.role = "tsconfig"
  \/ e.type = "write" /\ e.file = TsconfigJson

TsconfigDoneBefore(i) ==
  \E j \in 1..(i - 1) :
    /\ IsTsconfigStep(events[j])
    /\ IF events[j].type = "run" THEN events[j].outcome = "ok" ELSE events[j].ok

\* The step taken now starts the first scaffold step after the compiler install.
StartsTsconfigOrLater ==
  /\ pc = "sequence"
  /\ language = "TypeScript"
  /\ Len(events') > Len(events)
  /\ events'[Len(events) + 1].type \in {"run", "write"}
  /\ ~(events'[Len(events) + 1].type = "run"
         /\ events'[Len(events) + 1].role = "typescript")
  /\ \A j \in 1..Len(events) : ~IsTsconfigStep(events[j])

C21_TsconfigBeforeAdd ==
  /\ [](\A i \in 1..Len(events) :
         /\ (events[i].type = "run" /\ events[i].role = "add" /\ language = "TypeScript")
              => (TsconfigDoneBefore(i) \/ Append(targetDir, TsconfigJson) \in initialEntries)
         /\ IsTsconfigStep(events[i]) =>
              /\ language = "TypeScript"
              /\ Append(targetDir, TsconfigJson) \notin initialEntries
              /\ \A j \in 1..Len(events) : IsTsconfigStep(events[j]) => j = i
              /\ packageManager \in {"npm", "pnpm", "yarn", "bun"} =>
                   /\ events[i].type = "run"
                   /\ RanOkBefore("typescript", i)
              /\ packageManager = "deno" => events[i].type = "write"
         /\ (events[i].type = "run" /\ events[i].role = "typescript") =>
              (language = "TypeScript" /\ packageManager # "deno"))
  /\ [][StartsTsconfigOrLater =>
          (IsTsconfigStep(events'[Len(events) + 1])
             <=> Append(procCwd, TsconfigJson) \notin entries)]_vars

C21_Witness ==
  /\ language = "TypeScript"
  /\ packageManager = "yarn"
  /\ RanOk("typescript")
  /\ RanOk("tsconfig")
  /\ RanOk("add")
  /\ Append(targetDir, TsconfigJson) \in entries

(***************************************************************************)
(* C22 (as stated).  The working directory is changed exactly once per run *)
(* that reaches the command sequence, before the first external command of *)
(* the run starts, and never again afterwards.                             *)
(***************************************************************************)
ChdirCount == Len(EventsOf("chdir"))

C22_ChdirBeforeAnyExternalCommand ==
  \A i \in 1..Len(events) :
    (events[i].type = "chdir" /\ events[i].ok) =>
      \A j \in 1..(i - 1) : events[j].type \notin {"probe", "run"}

(***************************************************************************)
(* C22 (amended).  The working directory is changed exactly once per run   *)
(* that reaches the command sequence, after the availability queries and   *)
(* before the first command of the command sequence starts, and never      *)
(* again afterwards.                                                       *)
(***************************************************************************)
C22_ChdirOnceBeforeSequence ==
  /\ ChdirCount <= 1
  /\ (pc = "sequence" \/ HasEvent("run") \/ HasEvent("write") \/ Printed("all_done")) =>
       (EventsOf("chdir") = <<Chdir(targetDir, TRUE)>> /\ procCwd = targetDir)
  /\ ~ChdirDone => procCwd = Cwd0
  /\ \A i \in 1..Len(events) :
       events[i].type = "chdir" =>
         /\ \A j \in 1..(i - 1) : events[j].type \notin {"run", "write", "chdir"}
         /\ \A j \in (i + 1)..Len(events) : events[j].type \notin {"probe", "mkdir", "chdir"}
         /\ \E j \in 1..(i - 1) : events[j].type = "probe" /\ events[j].outcome = "ok"

C22_Witness ==
  /\ EventsOf("chdir") = <<Chdir(<< <<"w">>, <<"a">> >>, TRUE)>>
  /\ procCwd = << <<"w">>, <<"a">> >>
  /\ Len(EventsOf("run")) >= 4
  /\ Exited

(***************************************************************************)
(* C23.  At every moment of every run at most one child process started by *)
(* the tool is alive: an external command (availability probe or scaffold  *)
(* step) is started only after the previous one has exited.                *)
(***************************************************************************)
C23_AtMostOneChild ==
  /\ [](Len(children) <= 1)
  /\ [](Exited => children = <<>>)
  /\ [][Len(children') > Len(children) => children = <<>>]_vars

C23_Witness ==
  /\ children = <<"baml-cli">>
  /\ packageManager = "pip"
  /\ Len(EventsOf("run")) = 3
  /\ Len(EventsOf("probe")) = 1

(***************************************************************************)
(* C24.  When a step fails after earlier steps succeeded the tool performs *)
(* no undo: the directory it created and every file the completed steps    *)
(* produced are left as they were at the moment of failure, and the tool   *)
(* never deletes a file or directory in any run.                           *)
(***************************************************************************)
ProducedSoFar ==
  {targetDir : i \in {j \in 1..Len(events) : events[j].type = "mkdir" /\ events[j].ok}}
    \cup {Append(events[i].cwd, ManifestOf(packageManager)) :
            i \in {j \in 1..Len(events) :
                     events[j].type = "run" /\ events[j].role = "manifest"
                       /\ events[j].outcome = "ok"}}
    \cup {Append(targetDir, TsconfigJson) :
            i \in {j \in 1..Len(events) :
                     IsTsconfigStep(events[j])
                       /\ IF events[j].type = "run" THEN events[j].outcome = "ok"
                          ELSE events[j].ok}}

C24_NoRollback ==
  /\ [](initialEntries \subseteq entries)
  /\ [](ProducedSoFar \subseteq entries)
  /\ [][entries \subseteq entries']_vars
  /\ [][(exitCode = {} /\ exitCode' = {1}) => entries' = entries]_vars

C24_Witness ==
  /\ Exited
  /\ exitCode = {1}
  /\ packageManager = "poetry"
  /\ RanOk("manifest")
  /\ \E i \in 1..Len(events) :
       events[i].type = "run" /\ events[i].role = "add" /\ events[i].outcome = "error"
  /\ targetDir \notin initialEntries
  /\ Append(targetDir, PyprojectToml) \in entries

(***************************************************************************)
(* C25.  A project name given as the first command-line argument is used   *)
(* as it is, without the character-class validation and without any        *)
(* prompt, even when it is a flag or has characters the prompt would       *)
(* reject; in new-directory mode the directory created is that name        *)
(* resolved against the working directory.                                 *)
(***************************************************************************)
FirstArgGiven ==
  /\ Len(args) >= 1
  /\ args[1] # EmptyString
  /\ ~HelpFlagPresent

C25_FirstArgumentTakenAsIs ==
  (FirstArgGiven /\ pc # "start") =>
    /\ projectName = args[1]
    /\ lastInput = Undefined
    /\ reprompts = 0
    /\ ~Printed("invalid_name")
    /\ \A i \in 1..Len(events) :
         /\ events[i].type = "prompt" => events[i].name # "projectName"
         /\ events[i].type = "mkdir" =>
              (~useCurrentDir /\ events[i].path = ExpectedResolved(args[1]))
    /\ (~useCurrentDir /\ (pc \in {"change_directory", "sequence"} \/ HasEvent("chdir"))) =>
         /\ EventsOf("mkdir") = <<Mkdir(ExpectedResolved(args[1]), TRUE)>>
         /\ ExpectedResolved(args[1]) \in entries

C25_Witness ==
  /\ args = << <<"a", " ">>, <<"a">> >>
  /\ ~AcceptableName(args[1])
  /\ projectName = <<"a", " ">>
  /\ pc = "sequence"
  /\ << <<"w">>, <<"a", " ">> >> \in entries

(***************************************************************************)
(* C26.  For npm, pnpm and yarn the availability check passes when either  *)
(* the package manager's own version query or node's version query         *)
(* succeeds, so a run with the package manager absent and node present     *)
(* goes on to directory creation; for pip, poetry, uv, deno, bun and       *)
(* bundle only the package manager's own version query is consulted.       *)
(***************************************************************************)
ProbeList == [i \in 1..Len(EventsOf("probe")) |->
                <<EventsOf("probe")[i].cmd, EventsOf("probe")[i].outcome = "ok">>]

AvailabilityDecided == pc \notin {"start", "name_prompt", "language_prompt",
                                  "package_manager_prompt", "probe_package_manager",
                                  "probe_node"}
                       /\ packageManager # ""

PassedAvailability == AvailabilityDecided /\ ~InstallHintPrinted

Under(p, dir) == Len(p) > Len(dir) /\ SubSeq(p, 1, Len(dir)) = dir

SequenceBegins ==
  pc = "sequence" /\ ~HasEvent("run") /\ ~HasEvent("write")

CreatedByThisRun ==
  /\ ~useCurrentDir
  /\ targetDir \notin initialEntries
  /\ EventsOf("mkdir") = <<Mkdir(targetDir, TRUE)>>

FoundEmptyByThisRun ==
  /\ useCurrentDir
  /\ ~HasEvent("mkdir")
  /\ \A p \in initialEntries : ~Under(p, targetDir)

C27_SequenceStartsInEmptyTarget ==
  /\ (pc = "sequence" \/ HasEvent("run") \/ HasEvent("write")) =>
       (CreatedByThisRun \/ FoundEmptyByThisRun)
  /\ SequenceBegins =>
       /\ \A p \in entries : ~Under(p, targetDir)
       /\ \A f \in {RequirementsTxt, PyprojectToml, Gemfile, TsconfigJson} :
            Append(procCwd, f) \notin entries
  /\ (packageManager \in {"pip", "poetry", "uv", "bundle"} /\ HasEvent("run")) =>
       /\ EventsOf("run")[1].role = "manifest"
       /\ EventsOf("run")[1].cwd = targetDir
  /\ (language = "TypeScript" /\ HasEvent("run") /\ packageManager # "deno") =>
       EventsOf("run")[1].role = "typescript"
  /\ (packageManager = "deno" /\ (HasEvent("run") \/ HasEvent("write"))) =>
       /\ HasEvent("write")
       /\ \A i \in 1..Len(events) :
            events[i].type = "run" => \E j \in 1..(i - 1) : events[j].type = "write"

C27_Witness ==
  /\ useCurrentDir
  /\ packageManager = "uv"
  /\ Len(EventsOf("run")) = 1
  /\ EventsOf("run")[1].args = <<"init">>
  /\ Append(Cwd0, PyprojectToml) \in entries

(***************************************************************************)
(* C28.  Provided every prompt is answered and every child process exits,  *)
(* every run terminates: it reaches the success message or a process exit  *)
(* after finitely many steps, each executed at most once; nothing but the  *)
(* re-prompt on an invalid name is repeated.  Checked under SpecFair.      *)
(***************************************************************************)
NothingRepeated ==
  \A i, j \in 1..Len(events) :
    (i < j /\ events[i] = events[j]) =>
      /\ events[i].type = "print"
      /\ events[i].what \in {"success", "invalid_name"}

CallerCatchMessages ==
  {"not_installed", "please_install", "install_link", "ts_install_failed",
   "unexpected_error"}

C29_HintBranchesNeverRun ==
  /\ \A i \in 1..Len(events) :
       events[i].type = "print" => events[i].what \notin CallerCatchMessages
  /\ \A i \in 1..Len(events) :
       (events[i].type = "run" /\ events[i].outcome # "ok") =>
         /\ i = Len(events) - 1
         /\ events[Len(events)] = ConsoleLog("command_error")
         /\ pc = "exited"
         /\ exitCode = {1}

C29_Witness ==
  /\ revision = "part_001"
  /\ packageManager = "pip"
  /\ pc = "exited"
  /\ \E i \in 1..Len(events) :
       /\ events[i].type = "run"
       /\ events[i].cmd = "pip"
       /\ events[i].outcome = "enoent"

====
